---- MODULE Spec2Model ----
(***************************************************************************)
(* Model of the Locate918 backend.  Write paths: the event upsert          *)
(* (routes/events.rs, create_event), the venue fill-only merge and the     *)
(* venue patch (routes/venues.rs, create_venue and update_venue) and the   *)
(* user insert (routes/users.rs, create_user); each                        *)
(* handler is a sequence of separate store operations (one SQL statement   *)
(* each), and handlers of different requests interleave between            *)
(* statements.  Read paths: the listings, the lookups by id and the event  *)
(* search (routes/events.rs, routes/venues.rs, routes/users.rs), with the  *)
(* statement a search compiles to and the store's evaluation of it; and    *)
(* the chat pipeline with its intent-driven search (services/llm.rs).      *)
(***************************************************************************)
EXTENDS Integers, Sequences, FiniteSets, TLC

VARIABLES
    events,     \* the events table: a set of rows
    venues,     \* the venues table: a set of rows
    clock,      \* the application host's clock, read by chrono::Utc::now()
    dbclock,    \* the store's clock, read by SQL NOW()
    nextId,     \* source of fresh Uuid::new_v4() values
    calls,      \* number of handler invocations started so far
    epc,        \* create_event: position of each request handler
    ecall,      \* create_event: locals of each request handler
    vpc,        \* create_venue, update_venue: position of each handler
    vcall,      \* create_venue, update_venue: locals of each handler
    users,      \* the users table: a set of rows
    upc,        \* create_user: position of each request handler
    ucall,      \* create_user: locals of each request handler
    rd,         \* the read request being served (list, search, get by id)
    chat        \* the chat message being processed (process_chat_message)

vars == <<events, venues, clock, dbclock, nextId, calls, epc, ecall, vpc, vcall,
          users, upc, ucall, rd, chat>>

\* The state of the read side, which the write handlers leave alone.
rvars == <<users, upc, ucall, rd, chat>>

(***************************************************************************)
(* Bounds of the model.                                                    *)
(***************************************************************************)
MaxCalls == 2
MaxClock == 2

\* Concurrent request handlers (the tasks axum::serve runs the requests on).
Procs == {1, 2}

(***************************************************************************)
(* Option<T>: None is the empty sequence, Some(v) the one-element one.     *)
(***************************************************************************)
None == << >>
Some(v) == <<v>>
IsSome(o) == o # None
IsNone(o) == o = None

\* SQL COALESCE(a, b): the first argument that is not NULL.
Coalesce(a, b) == IF IsSome(a) THEN a ELSE b

(***************************************************************************)
(* Names are strings; the model keeps them as sequences of one-character   *)
(* strings so that SQL LOWER and TRIM can be computed.                     *)
(***************************************************************************)
UpperCaseLetters ==
    <<"A", "B", "C", "D", "E", "F", "G", "H", "I", "J", "K", "L", "M",
      "N", "O", "P", "Q", "R", "S", "T", "U", "V", "W", "X", "Y", "Z">>

LowerCaseLetters ==
    <<"a", "b", "c", "d", "e", "f", "g", "h", "i", "j", "k", "l", "m",
      "n", "o", "p", "q", "r", "s", "t", "u", "v", "w", "x", "y", "z">>

\* SQL LOWER on one character.
LowerChar(c) ==
    IF \E i \in DOMAIN UpperCaseLetters : UpperCaseLetters[i] = c
    THEN LowerCaseLetters[CHOOSE i \in DOMAIN UpperCaseLetters :
                             UpperCaseLetters[i] = c]
    ELSE c

\* SQL LOWER(text).
Lower(s) == [i \in 1..Len(s) |-> LowerChar(s[i])]

\* SQL TRIM(text): leading and trailing spaces removed.
RECURSIVE TrimLeft(_)
TrimLeft(s) == IF s # << >> /\ Head(s) = " " THEN TrimLeft(Tail(s)) ELSE s

RECURSIVE TrimRight(_)
TrimRight(s) ==
    IF s # << >> /\ s[Len(s)] = " "
    THEN TrimRight(SubSeq(s, 1, Len(s) - 1))
    ELSE s

Trim(s) == TrimRight(TrimLeft(s))

(***************************************************************************)
(* Events: payloads and rows.                                              *)
(***************************************************************************)
SourceUrls == {"https://x/1", "https://x/2"}

\* The mutable fields of an event: every column the payload carries except
\* the natural key source_url.
EventMutableFields ==
    {"title", "description", "venue", "venue_address", "location",
     "source_name", "start_time", "end_time", "categories", "price_min",
     "price_max", "outdoor", "family_friendly", "image_url"}

\* Text values the store matches on (LOWER, TRIM, ILIKE, = ANY) are kept as
\* sequences of one-character strings.
TheHall == <<"T", "h", "e", " ", "H", "a", "l", "l">>
TheBarn == <<"T", "h", "e", " ", "B", "a", "r", "n">>
JazzNight == <<"J", "a", "z", "z", " ", "N", "i", "g", "h", "t">>
BluesNight == <<"B", "l", "u", "e", "s", " ", "N", "i", "g", "h", "t">>
Untitled == <<"U", "n", "t", "i", "t", "l", "e", "d">>
LiveJazz == <<"l", "i", "v", "e", " ", "j", "a", "z", "z">>
NowIndoors == <<"n", "o", "w", " ", "i", "n", "d", "o", "o", "r", "s">>
Downtown == <<"D", "o", "w", "n", "t", "o", "w", "n">>
Midtown == <<"M", "i", "d", "t", "o", "w", "n">>
Music == <<"m", "u", "s", "i", "c">>
Jazz == <<"j", "a", "z", "z">>

\* CreateEvent payloads a scraper may post: a full record, a re-scrape of it
\* with every value changed, and a bare record with every Option absent.
PayloadFull(u) ==
    [title |-> JazzNight, description |-> Some(LiveJazz),
     venue |-> Some(TheHall), venue_address |-> Some("1 Main St"),
     location |-> Some(Downtown), source_url |-> u,
     source_name |-> Some("scraperA"), start_time |-> 2,
     end_time |-> Some(3), categories |-> Some(<<Music, Jazz>>),
     price_min |-> Some(10), price_max |-> Some(30),
     outdoor |-> Some(TRUE), family_friendly |-> Some(FALSE),
     image_url |-> Some("a.png")]

PayloadRescrape(u) ==
    [title |-> BluesNight, description |-> Some(NowIndoors),
     venue |-> Some(TheBarn), venue_address |-> Some("2 Oak Ave"),
     location |-> Some(Midtown), source_url |-> u,
     source_name |-> Some("scraperB"), start_time |-> 3,
     end_time |-> Some(4), categories |-> Some(<<Music>>),
     price_min |-> Some(20), price_max |-> Some(40),
     outdoor |-> Some(FALSE), family_friendly |-> Some(TRUE),
     image_url |-> Some("b.png")]

PayloadBare(u) ==
    [title |-> Untitled, description |-> None,
     venue |-> None, venue_address |-> None,
     location |-> None, source_url |-> u,
     source_name |-> None, start_time |-> 1,
     end_time |-> None, categories |-> None,
     price_min |-> None, price_max |-> None,
     outdoor |-> None, family_friendly |-> None,
     image_url |-> None]

EventPayloads ==
    UNION {{PayloadFull(u), PayloadRescrape(u), PayloadBare(u)} : u \in SourceUrls}

\* INSERT ... VALUES ($1..$18): the row a non-conflicting insert stores.
InsertedEventRow(id, p, now) ==
    [id |-> id, title |-> p.title, description |-> p.description,
     venue |-> p.venue, venue_address |-> p.venue_address,
     location |-> p.location, source_url |-> p.source_url,
     source_name |-> p.source_name, start_time |-> p.start_time,
     end_time |-> p.end_time, categories |-> p.categories,
     price_min |-> p.price_min, price_max |-> p.price_max,
     outdoor |-> p.outdoor, family_friendly |-> p.family_friendly,
     image_url |-> p.image_url, created_at |-> now, updated_at |-> now]

\* Mutation: the conflict branch forgets one column (description).
ConflictUpdatedRowSkipsDescription(r, p, id, now, dbnow) ==
    [InsertedEventRow(r.id, p, r.created_at)
        EXCEPT !.description = r.description, !.updated_at = dbnow]

\* ON CONFLICT (source_url) DO UPDATE SET col = EXCLUDED.col, ...,
\* updated_at = NOW(): every mutable column is taken from the proposed row;
\* id, source_url and created_at are not in the SET list and keep their
\* stored values.
ConflictUpdatedRow(r, p, id, now, dbnow) ==
    [r EXCEPT !.title = p.title, !.description = p.description,
              !.venue = p.venue, !.venue_address = p.venue_address,
              !.location = p.location, !.source_name = p.source_name,
              !.start_time = p.start_time, !.end_time = p.end_time,
              !.categories = p.categories, !.price_min = p.price_min,
              !.price_max = p.price_max, !.outdoor = p.outdoor,
              !.family_friendly = p.family_friendly,
              !.image_url = p.image_url, !.updated_at = dbnow]

\* Mutation: a plain INSERT with no ON CONFLICT clause.
UpsertEventPlainInsert(rows, id, p, now, dbnow) ==
    rows \cup {InsertedEventRow(id, p, now)}

\* The whole upsert statement, executed atomically by the store.
UpsertEvent(rows, id, p, now, dbnow) ==
    IF \E r \in rows : r.source_url = p.source_url
    THEN {IF r.source_url = p.source_url
          THEN ConflictUpdatedRow(r, p, id, now, dbnow)
          ELSE r : r \in rows}
    ELSE rows \cup {InsertedEventRow(id, p, now)}

\* The rows stored under a source_url: what ON CONFLICT (source_url) finds.
EventsBySourceUrl(rows, u) == {r \in rows : r.source_url = u}

\* events e LEFT JOIN venues v ON LOWER(TRIM(e.venue)) = LOWER(TRIM(v.name)):
\* one joined row per matching venue, and one with no venue when none
\* matches (an event without a venue matches none).
VenuesOfEvent(e, vns) ==
    IF IsNone(e.venue) THEN {}
    ELSE {v \in vns : Lower(Trim(e.venue[1])) = Lower(Trim(v.name))}

JoinedRows(evs, vns) ==
    UNION {IF VenuesOfEvent(e, vns) = {}
           THEN {[e |-> e, v |-> None]}
           ELSE {[e |-> e, v |-> Some(v)] : v \in VenuesOfEvent(e, vns)}
           : e \in evs}

\* The row as routes::events::Event reads it: the event's columns and
\* v.website AS venue_website.
JoinedEvent(j) ==
    [venue_website |-> IF IsSome(j.v) THEN j.v[1].website ELSE None] @@ j.e

\* SELECT e.*, v.website AS venue_website FROM events e LEFT JOIN venues v
\* ON .. WHERE e.source_url = $1: the joined rows of the follow-up SELECT.
JoinedBySourceUrl(evs, vns, u) ==
    {JoinedEvent(j) : j \in {x \in JoinedRows(evs, vns) : x.e.source_url = u}}

(***************************************************************************)
(* HTTP status codes the handlers answer with.                             *)
(***************************************************************************)
StatusOk == 200
StatusCreated == 201
StatusInternalServerError == 500

(***************************************************************************)
(* create_event (POST /api/events).                                        *)
(*   idle -> upsert -> fetch -> done -> idle                               *)
(* prior is a history field, not a local of the handler: the row the       *)
(* upsert statement found under the payload's source_url (None when it     *)
(* inserted).                                                              *)
(***************************************************************************)
EIdle == [payload |-> None, id |-> 0, now |-> 0, status |-> 0,
          body |-> None, prior |-> None]

\* The handler's answer to a successful call: always StatusCode::OK.
CreateEventStatus(inserted) == StatusOk

\* A request is served by the first free handler.
Free(h) == epc[h] = "idle" /\ vpc[h] = "idle"
FirstFree(h) == Free(h) /\ \A g \in Procs : g < h => ~Free(g)

\* Entry: let id = Uuid::new_v4(); let now = chrono::Utc::now();
EStart(h, p) ==
    /\ FirstFree(h)
    /\ calls < MaxCalls
    /\ calls' = calls + 1
    /\ nextId' = nextId + 1
    /\ ecall' = [ecall EXCEPT ![h] = [EIdle EXCEPT !.payload = Some(p),
                                                   !.id = nextId,
                                                   !.now = clock]]
    /\ epc' = [epc EXCEPT ![h] = "upsert"]
    /\ UNCHANGED rvars
    /\ UNCHANGED <<events, venues, clock, vpc, vcall, dbclock>>

\* The INSERT ... ON CONFLICT statement succeeds.
EUpsert(h) ==
    /\ epc[h] = "upsert"
    /\ LET p == ecall[h].payload[1]
           found == EventsBySourceUrl(events, p.source_url)
       IN /\ events' = UpsertEvent(events, ecall[h].id, p, ecall[h].now, dbclock)
          /\ ecall' = [ecall EXCEPT ![h].prior =
                          IF found = {} THEN None
                          ELSE Some(CHOOSE r \in found : TRUE)]
    /\ epc' = [epc EXCEPT ![h] = "fetch"]
    /\ UNCHANGED rvars
    /\ UNCHANGED <<venues, clock, nextId, calls, vpc, vcall, dbclock>>

\* The INSERT ... ON CONFLICT statement fails: map_err(...)? answers 500.
EUpsertFail(h) ==
    /\ epc[h] = "upsert"
    /\ ecall' = [ecall EXCEPT ![h].status = StatusInternalServerError]
    /\ epc' = [epc EXCEPT ![h] = "done"]
    /\ UNCHANGED rvars
    /\ UNCHANGED <<events, venues, clock, nextId, calls, vpc, vcall, dbclock>>

\* The follow-up SELECT by source_url over the join with venues (fetch_one)
\* returns the first row the store produces, one of the joined rows; the
\* handler answers (StatusCode::OK, Json(event)).
EFetch(h) ==
    /\ epc[h] = "fetch"
    /\ \E r \in JoinedBySourceUrl(events, venues,
                                  ecall[h].payload[1].source_url) :
          ecall' = [ecall EXCEPT ![h].body = Some(r),
                                 ![h].status =
                                     CreateEventStatus(IsNone(ecall[h].prior))]
    /\ epc' = [epc EXCEPT ![h] = "done"]
    /\ UNCHANGED rvars
    /\ UNCHANGED <<events, venues, clock, nextId, calls, vpc, vcall, dbclock>>

\* The follow-up SELECT fails (store error, or fetch_one finds no row).
EFetchFail(h) ==
    /\ epc[h] = "fetch"
    /\ ecall' = [ecall EXCEPT ![h].status = StatusInternalServerError]
    /\ epc' = [epc EXCEPT ![h] = "done"]
    /\ UNCHANGED rvars
    /\ UNCHANGED <<events, venues, clock, nextId, calls, vpc, vcall, dbclock>>

\* The response has been sent; the handler's locals are dropped.
EFinish(h) ==
    /\ epc[h] = "done"
    /\ ecall' = [ecall EXCEPT ![h] = EIdle]
    /\ epc' = [epc EXCEPT ![h] = "idle"]
    /\ UNCHANGED rvars
    /\ UNCHANGED <<events, venues, clock, nextId, calls, vpc, vcall, dbclock>>

\* Time passes on the application host.
Tick ==
    /\ clock < MaxClock
    /\ clock' = clock + 1
    /\ UNCHANGED rvars
    /\ UNCHANGED <<events, venues, dbclock, nextId, calls, epc, ecall, vpc,
                   vcall>>

\* Time passes on the store's host.  Nothing in the program ties the two
\* clocks to each other.
DbTick ==
    /\ dbclock < MaxClock
    /\ dbclock' = dbclock + 1
    /\ UNCHANGED rvars
    /\ UNCHANGED <<events, venues, clock, nextId, calls, epc, ecall, vpc, vcall>>

(***************************************************************************)
(* Venues: payloads and rows.                                              *)
(***************************************************************************)
\* Names a scraper may post: three spellings of one venue's name,
\* "The Hall", "the hall" and "the hall ".
VenueNames == {TheHall, Lower(TheHall), Lower(TheHall) \o <<" ">>}

\* The columns create_venue may fill.
VenueFillFields == {"address", "city", "website", "latitude", "longitude"}

\* Two uncoordinated sources of venue data, each with its own values.
VenueSources == {1, 2}

SourceValue(f, src) ==
    CASE f = "address"   -> IF src = 1 THEN "1 Main St" ELSE "2 Oak Ave"
      [] f = "city"      -> IF src = 1 THEN "Tulsa" ELSE "Jenks"
      [] f = "website"   -> IF src = 1 THEN "https://hall.example"
                                        ELSE "https://other.example"
      [] f = "latitude"  -> 35 + src
      [] f = "longitude" -> -(95 + src)

\* The CreateVenue payload of source src carrying the fields in present.
VenuePayload(name, src, present) ==
    [name |-> name,
     address   |-> IF "address" \in present
                   THEN Some(SourceValue("address", src)) ELSE None,
     city      |-> IF "city" \in present
                   THEN Some(SourceValue("city", src)) ELSE None,
     website   |-> IF "website" \in present
                   THEN Some(SourceValue("website", src)) ELSE None,
     latitude  |-> IF "latitude" \in present
                   THEN Some(SourceValue("latitude", src)) ELSE None,
     longitude |-> IF "longitude" \in present
                   THEN Some(SourceValue("longitude", src)) ELSE None]

\* What a source posts: the bare name, one field alone, or the full record.
VenuePayloadShapes ==
    {{}, VenueFillFields} \cup {{f} : f \in VenueFillFields}

\* Source 1 posts every shape; source 2 posts the website alone and the full
\* record, so that every field can arrive with two different values.
VenuePayloads ==
    {VenuePayload(n, 1, present) :
        n \in VenueNames, present \in VenuePayloadShapes}
    \cup
    {VenuePayload(n, 2, present) :
        n \in VenueNames, present \in {{"website"}, VenueFillFields}}

\* SELECT ... FROM venues WHERE LOWER(name) = LOWER($1)
VenuesByLowerName(rows, name) == {v \in rows : Lower(v.name) = Lower(name)}

\* SELECT ... FROM venues WHERE id = $1
VenuesById(rows, id) == {v \in rows : v.id = id}

\* Mutation: needs_update looks at the payload only, not at the stored row.
NeedsUpdatePayloadOnly(venue, p) ==
    IsSome(p.website) \/ IsSome(p.address) \/ IsSome(p.latitude)

\* let needs_update = (website ..) || (address ..) || (latitude ..);
NeedsUpdate(venue, p) ==
    \/ (IsNone(venue.website) /\ IsSome(p.website))
    \/ (IsNone(venue.address) /\ IsSome(p.address))
    \/ (IsNone(venue.latitude) /\ IsSome(p.latitude))

\* Mutation: COALESCE($n, col), the argument order update_venue uses.
FilledVenueRowPayloadFirst(v, p) ==
    [v EXCEPT !.address = Coalesce(p.address, v.address),
              !.city = Coalesce(p.city, v.city),
              !.website = Coalesce(p.website, v.website),
              !.latitude = Coalesce(p.latitude, v.latitude),
              !.longitude = Coalesce(p.longitude, v.longitude)]

\* Mutation: SET col = $n without COALESCE.
FilledVenueRowOverwrites(v, p) ==
    [v EXCEPT !.address = p.address, !.city = p.city,
              !.website = p.website, !.latitude = p.latitude,
              !.longitude = p.longitude]

\* UPDATE venues SET col = COALESCE(col, $n), ... : the new value of one row.
FilledVenueRow(v, p) ==
    [v EXCEPT !.address = Coalesce(v.address, p.address),
              !.city = Coalesce(v.city, p.city),
              !.website = Coalesce(v.website, p.website),
              !.latitude = Coalesce(v.latitude, p.latitude),
              !.longitude = Coalesce(v.longitude, p.longitude)]

\* UPDATE venues SET ... WHERE id = $1, executed atomically by the store.
UpdateVenueFill(rows, id, p) ==
    {IF v.id = id THEN FilledVenueRow(v, p) ELSE v : v \in rows}

\* The Venue the insert branch stores and answers with.
InsertedVenueRow(id, p, now) ==
    [id |-> id, name |-> p.name, address |-> p.address, city |-> p.city,
     capacity |-> None, venue_type |-> None, noise_level |-> None,
     parking_info |-> None, accessibility_info |-> None,
     website |-> p.website, created_at |-> now,
     latitude |-> p.latitude, longitude |-> p.longitude]

\* INSERT INTO venues (...) VALUES ($1..$8): no conflict clause.
InsertVenue(rows, id, p, now) == rows \cup {InsertedVenueRow(id, p, now)}

(***************************************************************************)
(* create_venue (POST /api/venues).                                        *)
(*   idle -> lookup -> done                       (exists, nothing to do)  *)
(*   idle -> lookup -> update -> refetch -> done  (exists, fields to fill) *)
(*   idle -> lookup -> insert -> done             (new)                    *)
(***************************************************************************)
VIdle == [payload |-> None, existing |-> None, id |-> 0, now |-> 0,
          status |-> 0, body |-> None]

\* A request arrives with its JSON payload.
VStart(h, p) ==
    /\ FirstFree(h)
    /\ calls < MaxCalls
    /\ calls' = calls + 1
    /\ vcall' = [vcall EXCEPT ![h] = [VIdle EXCEPT !.payload = Some(p)]]
    /\ vpc' = [vpc EXCEPT ![h] = "lookup"]
    /\ UNCHANGED rvars
    /\ UNCHANGED <<events, venues, clock, nextId, epc, ecall, dbclock>>

\* The same, when requests are served one after the other.
VStartSeq(h, p) ==
    /\ \A g \in Procs : vpc[g] = "idle"
    /\ VStart(h, p)

\* The lookup finds a row (fetch_optional answers with one matching row)
\* and the handler decides between the UPDATE and the early return.
VLookupFound(h) ==
    /\ vpc[h] = "lookup"
    /\ \E v \in VenuesByLowerName(venues, vcall[h].payload[1].name) :
          IF NeedsUpdate(v, vcall[h].payload[1])
          THEN /\ vcall' = [vcall EXCEPT ![h].existing = Some(v)]
               /\ vpc' = [vpc EXCEPT ![h] = "update"]
          ELSE /\ vcall' = [vcall EXCEPT ![h].existing = Some(v),
                                         ![h].status = StatusOk,
                                         ![h].body = Some(v)]
               /\ vpc' = [vpc EXCEPT ![h] = "done"]
    /\ UNCHANGED rvars
    /\ UNCHANGED <<events, venues, clock, nextId, calls, epc, ecall, dbclock>>

\* The lookup finds nothing: let id = Uuid::new_v4(); let now = Utc::now();
VLookupMissing(h) ==
    /\ vpc[h] = "lookup"
    /\ VenuesByLowerName(venues, vcall[h].payload[1].name) = {}
    /\ vcall' = [vcall EXCEPT ![h].id = nextId, ![h].now = clock]
    /\ nextId' = nextId + 1
    /\ vpc' = [vpc EXCEPT ![h] = "insert"]
    /\ UNCHANGED rvars
    /\ UNCHANGED <<events, venues, clock, calls, epc, ecall, dbclock>>

\* The UPDATE succeeds.
VUpdate(h) ==
    /\ vpc[h] = "update"
    /\ venues' = UpdateVenueFill(venues, vcall[h].existing[1].id,
                                 vcall[h].payload[1])
    /\ vpc' = [vpc EXCEPT ![h] = "refetch"]
    /\ UNCHANGED rvars
    /\ UNCHANGED <<events, clock, nextId, calls, epc, ecall, vcall, dbclock>>

\* The SELECT by id after the UPDATE (fetch_one) returns the row.
VRefetch(h) ==
    /\ vpc[h] = "refetch"
    /\ \E v \in VenuesById(venues, vcall[h].existing[1].id) :
          vcall' = [vcall EXCEPT ![h].status = StatusOk, ![h].body = Some(v)]
    /\ vpc' = [vpc EXCEPT ![h] = "done"]
    /\ UNCHANGED rvars
    /\ UNCHANGED <<events, venues, clock, nextId, calls, epc, ecall, dbclock>>

\* The INSERT succeeds; the answer is built from the payload.
VInsert(h) ==
    /\ vpc[h] = "insert"
    /\ venues' = InsertVenue(venues, vcall[h].id, vcall[h].payload[1],
                             vcall[h].now)
    /\ vcall' = [vcall EXCEPT
                    ![h].status = StatusCreated,
                    ![h].body = Some(InsertedVenueRow(vcall[h].id,
                                        vcall[h].payload[1], vcall[h].now))]
    /\ vpc' = [vpc EXCEPT ![h] = "done"]
    /\ UNCHANGED rvars
    /\ UNCHANGED <<events, clock, nextId, calls, epc, ecall, dbclock>>

\* Any of the handler's store operations fails: map_err(...)? answers 500
\* and the handler stops where it is.
VStoreError(h) ==
    /\ vpc[h] \in {"lookup", "update", "refetch", "insert"}
    /\ vcall' = [vcall EXCEPT ![h].status = StatusInternalServerError]
    /\ vpc' = [vpc EXCEPT ![h] = "done"]
    /\ UNCHANGED rvars
    /\ UNCHANGED <<events, venues, clock, nextId, calls, epc, ecall, dbclock>>

\* The response has been sent; the handler's locals are dropped.
VFinish(h) ==
    /\ vpc[h] = "done"
    /\ vcall' = [vcall EXCEPT ![h] = VIdle]
    /\ vpc' = [vpc EXCEPT ![h] = "idle"]
    /\ UNCHANGED rvars
    /\ UNCHANGED <<events, venues, clock, nextId, calls, epc, ecall, dbclock>>

(***************************************************************************)
(* update_venue (PATCH /api/venues/:id).                                   *)
(*   idle -> patch -> patch_fetch -> done                                  *)
(* The handler runs on the same tasks as create_venue; vcall holds its     *)
(* locals (id is the path parameter, payload the UpdateVenue body).        *)
(* existing is a history field here: the row the UPDATE found under id.    *)
(***************************************************************************)
\* The columns update_venue sets.
UpdateVenueFields ==
    {"address", "city", "capacity", "venue_type", "noise_level",
     "parking_info", "accessibility_info", "website", "latitude", "longitude"}

\* The value a source has for a column of UpdateVenue.
PatchValue(f, src) ==
    CASE f \in VenueFillFields -> SourceValue(f, src)
      [] f = "capacity" -> 100 * src
      [] f = "venue_type" -> IF src = 1 THEN "theater" ELSE "bar"
      [] f = "noise_level" -> IF src = 1 THEN "quiet" ELSE "loud"
      [] f = "parking_info" -> IF src = 1 THEN "lot" ELSE "street"
      [] f = "accessibility_info" -> IF src = 1 THEN "ramp" ELSE "stairs"

\* The UpdateVenue payload of source src carrying the fields in present.
VenuePatch(src, present) ==
    [f \in UpdateVenueFields |->
        IF f \in present THEN Some(PatchValue(f, src)) ELSE None]

\* Mutation: SET col = COALESCE(col, $n), the argument order create_venue
\* uses.
PatchedVenueRowStoredFirst(v, p) ==
    [f \in DOMAIN v |->
        IF f \in UpdateVenueFields THEN Coalesce(v[f], p[f]) ELSE v[f]]

\* UPDATE venues SET col = COALESCE($n, col), ... : the new value of one row.
\* id, name and created_at are not in the SET list.
PatchedVenueRow(v, p) ==
    [f \in DOMAIN v |->
        IF f \in UpdateVenueFields THEN Coalesce(p[f], v[f]) ELSE v[f]]

\* UPDATE venues SET ... WHERE id = $1, executed atomically by the store;
\* with no row under id it updates nothing and succeeds.
UpdateVenuePatch(rows, id, p) ==
    {IF v.id = id THEN PatchedVenueRow(v, p) ELSE v : v \in rows}

\* A request arrives with its path id and JSON payload.
UStart(h, id, p) ==
    /\ FirstFree(h)
    /\ calls < MaxCalls
    /\ calls' = calls + 1
    /\ vcall' = [vcall EXCEPT ![h] = [VIdle EXCEPT !.payload = Some(p),
                                                   !.id = id]]
    /\ vpc' = [vpc EXCEPT ![h] = "patch"]
    /\ UNCHANGED rvars
    /\ UNCHANGED <<events, venues, clock, nextId, epc, ecall, dbclock>>

\* The UPDATE succeeds.
UPatch(h) ==
    /\ vpc[h] = "patch"
    /\ venues' = UpdateVenuePatch(venues, vcall[h].id, vcall[h].payload[1])
    /\ vcall' = [vcall EXCEPT ![h].existing =
                    IF VenuesById(venues, vcall[h].id) = {} THEN None
                    ELSE Some(CHOOSE v \in VenuesById(venues, vcall[h].id) : TRUE)]
    /\ vpc' = [vpc EXCEPT ![h] = "patch_fetch"]
    /\ UNCHANGED rvars
    /\ UNCHANGED <<events, clock, nextId, calls, epc, ecall, dbclock>>

\* The SELECT by id after the UPDATE (fetch_one) returns the row; the
\* handler answers Ok(Json(venue)).
UFetch(h) ==
    /\ vpc[h] = "patch_fetch"
    /\ \E v \in VenuesById(venues, vcall[h].id) :
          vcall' = [vcall EXCEPT ![h].status = StatusOk, ![h].body = Some(v)]
    /\ vpc' = [vpc EXCEPT ![h] = "done"]
    /\ UNCHANGED rvars
    /\ UNCHANGED <<events, venues, clock, nextId, calls, epc, ecall, dbclock>>

\* fetch_one finds no row under id: sqlx::Error::RowNotFound, which
\* map_err(...)? answers with 500.
UFetchMissing(h) ==
    /\ vpc[h] = "patch_fetch"
    /\ VenuesById(venues, vcall[h].id) = {}
    /\ vcall' = [vcall EXCEPT ![h].status = StatusInternalServerError]
    /\ vpc' = [vpc EXCEPT ![h] = "done"]
    /\ UNCHANGED rvars
    /\ UNCHANGED <<events, venues, clock, nextId, calls, epc, ecall, dbclock>>

\* Either store operation fails: map_err(...)? answers 500 and the handler
\* stops where it is.
UStoreError(h) ==
    /\ vpc[h] \in {"patch", "patch_fetch"}
    /\ vcall' = [vcall EXCEPT ![h].status = StatusInternalServerError]
    /\ vpc' = [vpc EXCEPT ![h] = "done"]
    /\ UNCHANGED rvars
    /\ UNCHANGED <<events, venues, clock, nextId, calls, epc, ecall, dbclock>>

(***************************************************************************)
(* The query a search compiles to.  A compiled query is the statement      *)
(* text, the WHERE fragments that text was joined from (each with the      *)
(* positional placeholders it carries), the values bound to $1..$n in the  *)
(* order of the .bind() calls, and the LIMIT / OFFSET operands.            *)
(***************************************************************************)
\* Option::unwrap_or
UnwrapOr(o, d) == IF IsSome(o) THEN o[1] ELSE d

\* Ord::min
Min(a, b) == IF a <= b THEN a ELSE b

\* Defaults and caps of the limit parameter.
SearchDefaultLimit == 50
SearchMaxLimit == 100
ListEventsDefaultLimit == 100
ListEventsMaxLimit == 1000
ListVenuesDefaultLimit == 500
ListVenuesMaxLimit == 1000
IntentSearchLimit == 20

\* let limit = params.limit.unwrap_or(50).min(100);
SearchLimit(params) ==
    Min(UnwrapOr(params.limit, SearchDefaultLimit), SearchMaxLimit)

\* let offset = params.offset.unwrap_or(0);
SearchOffset(params) == UnwrapOr(params.offset, 0)

\* let limit = params.limit.unwrap_or(100).min(1000);   (list_events)
ListEventsLimit(limit) ==
    Min(UnwrapOr(limit, ListEventsDefaultLimit), ListEventsMaxLimit)

\* let limit = params.limit.unwrap_or(500).min(1000);   (list_venues)
ListVenuesLimit(limit) ==
    Min(UnwrapOr(limit, ListVenuesDefaultLimit), ListVenuesMaxLimit)

\* The characters of a text value as one string (what format!("{}") writes).
RECURSIVE Str(_)
Str(s) == IF s = << >> THEN "" ELSE Head(s) \o Str(Tail(s))

\* conditions.join(sep)
RECURSIVE Join(_, _)
Join(strs, sep) ==
    IF strs = << >> THEN ""
    ELSE IF Len(strs) = 1 THEN strs[1]
    ELSE strs[1] \o sep \o Join(Tail(strs), sep)

\* A positional placeholder: format!("${}", n).
Placeholder(n) == "$" \o ToString(n)

\* format!("%{}%", term)
Pattern(term) == <<"%">> \o term \o <<"%">>

\* Values as the driver sends them: each carries its SQL type.
Text(v) == [ty |-> "text", v |-> v]
Timestamp(v) == [ty |-> "timestamptz", v |-> v]
Float(v) == [ty |-> "float8", v |-> v]
Int4(v) == [ty |-> "int4", v |-> v]

\* A WHERE fragment: the column test it makes and the placeholders it uses.
Fragment(test, slots) == [test |-> test, slots |-> slots]

\* The text of a fragment; col is the column qualifier ("e." or "").
FragmentText(f, col) ==
    CASE f.test = "upcoming" -> col \o "start_time >= NOW()"
      [] f.test = "text" ->
            "(" \o col \o "title ILIKE " \o Placeholder(f.slots[1])
                \o " OR " \o col \o "description ILIKE "
                \o Placeholder(f.slots[2]) \o ")"
      [] f.test = "category" ->
            Placeholder(f.slots[1]) \o " = ANY(" \o col \o "categories)"
      [] f.test = "venue" -> col \o "venue ILIKE " \o Placeholder(f.slots[1])
      [] f.test = "location" ->
            col \o "location ILIKE " \o Placeholder(f.slots[1])
      [] f.test = "start_ge" ->
            col \o "start_time >= " \o Placeholder(f.slots[1])
      [] f.test = "start_le" ->
            col \o "start_time <= " \o Placeholder(f.slots[1])
      [] f.test = "outdoor" -> col \o "outdoor = TRUE"
      [] f.test = "family_friendly" -> col \o "family_friendly = TRUE"
      [] f.test = "price" ->
            "(" \o col \o "price_min IS NULL OR " \o col \o "price_min <= "
                \o Placeholder(f.slots[1]) \o ")"

\* conditions.push(format!(.., bind_index, ..)); bind_index += n;
Push(s, test, n) ==
    [conditions |-> Append(s.conditions,
                           Fragment(test, [i \in 1..n |-> s.bind_index + i - 1])),
     bind_index |-> s.bind_index + n]

\* Mutation: conditions starts empty, without the default time constraint.
SearchConditionsNoDefault(params) ==
    LET s0 == [conditions |-> << >>, bind_index |-> 1]
        s1 == IF IsSome(params.q) THEN Push(s0, "text", 2) ELSE s0
        s2 == IF IsSome(params.category) THEN Push(s1, "category", 1) ELSE s1
        s3 == IF IsSome(params.venue) THEN Push(s2, "venue", 1) ELSE s2
        s4 == IF IsSome(params.location) THEN Push(s3, "location", 1) ELSE s3
        s5 == IF IsSome(params.start_after) THEN Push(s4, "start_ge", 1) ELSE s4
        s6 == IF IsSome(params.start_before) THEN Push(s5, "start_le", 1) ELSE s5
        s7 == IF params.outdoor = Some(TRUE) THEN Push(s6, "outdoor", 0) ELSE s6
        s8 == IF params.family_friendly = Some(TRUE)
              THEN Push(s7, "family_friendly", 0) ELSE s7
    IN IF IsSome(params.max_price) THEN Push(s8, "price", 1) ELSE s8

\* Mutation: a boolean filter adds its fragment whenever it is given, also
\* when it is given as false.
SearchConditionsBoolWhenGiven(params) ==
    LET s0 == [conditions |-> <<Fragment("upcoming", << >>)>>, bind_index |-> 1]
        s1 == IF IsSome(params.q) THEN Push(s0, "text", 2) ELSE s0
        s2 == IF IsSome(params.category) THEN Push(s1, "category", 1) ELSE s1
        s3 == IF IsSome(params.venue) THEN Push(s2, "venue", 1) ELSE s2
        s4 == IF IsSome(params.location) THEN Push(s3, "location", 1) ELSE s3
        s5 == IF IsSome(params.start_after) THEN Push(s4, "start_ge", 1) ELSE s4
        s6 == IF IsSome(params.start_before) THEN Push(s5, "start_le", 1) ELSE s5
        s7 == IF IsSome(params.outdoor) THEN Push(s6, "outdoor", 0) ELSE s6
        s8 == IF IsSome(params.family_friendly)
              THEN Push(s7, "family_friendly", 0) ELSE s7
    IN IF IsSome(params.max_price) THEN Push(s8, "price", 1) ELSE s8

\* search_events, "Build dynamic query": conditions starts with the default
\* time constraint; each filter that is present pushes its fragment and
\* advances bind_index.
SearchConditions(params) ==
    LET s0 == [conditions |-> <<Fragment("upcoming", << >>)>>, bind_index |-> 1]
        s1 == IF IsSome(params.q) THEN Push(s0, "text", 2) ELSE s0
        s2 == IF IsSome(params.category) THEN Push(s1, "category", 1) ELSE s1
        s3 == IF IsSome(params.venue) THEN Push(s2, "venue", 1) ELSE s2
        s4 == IF IsSome(params.location) THEN Push(s3, "location", 1) ELSE s3
        s5 == IF IsSome(params.start_after) THEN Push(s4, "start_ge", 1) ELSE s4
        s6 == IF IsSome(params.start_before) THEN Push(s5, "start_le", 1) ELSE s5
        s7 == IF params.outdoor = Some(TRUE) THEN Push(s6, "outdoor", 0) ELSE s6
        s8 == IF params.family_friendly = Some(TRUE)
              THEN Push(s7, "family_friendly", 0) ELSE s7
    IN IF IsSome(params.max_price) THEN Push(s8, "price", 1) ELSE s8

\* The SELECT list and FROM clause of the event queries that join venues.
EventSelectJoin ==
    "SELECT e.id, e.title, e.description, e.venue, e.venue_address, "
    \o "e.location, e.source_url, e.source_name, e.start_time, e.end_time, "
    \o "e.categories, e.price_min, e.price_max, e.outdoor, "
    \o "e.family_friendly, e.image_url, e.created_at, e.updated_at, "
    \o "v.website AS venue_website FROM events e LEFT JOIN venues v "
    \o "ON LOWER(TRIM(e.venue)) = LOWER(TRIM(v.name))"

\* The text of every fragment, in order.
FragmentTexts(conditions, col) ==
    [i \in 1..Len(conditions) |-> FragmentText(conditions[i], col)]

\* Mutation: the free-text term is written into the statement text instead
\* of being left to its placeholder.
SearchTextInterpolated(params) ==
    LET s == SearchConditions(params)
    IN EventSelectJoin
       \o " WHERE " \o Join(FragmentTexts(s.conditions, "e."), " AND ")
       \o (IF IsSome(params.q) THEN " /* " \o Str(params.q[1]) \o " */" ELSE "")
       \o " ORDER BY e.start_time ASC"
       \o " LIMIT " \o Placeholder(s.bind_index)
       \o " OFFSET " \o Placeholder(s.bind_index + 1)

\* let query = format!(".. WHERE {} ORDER BY e.start_time ASC LIMIT ${}
\* OFFSET ${}", where_clause, bind_index, bind_index + 1);
SearchText(params) ==
    LET s == SearchConditions(params)
    IN EventSelectJoin
       \o " WHERE " \o Join(FragmentTexts(s.conditions, "e."), " AND ")
       \o " ORDER BY e.start_time ASC"
       \o " LIMIT " \o Placeholder(s.bind_index)
       \o " OFFSET " \o Placeholder(s.bind_index + 1)

\* Mutation: the free-text pattern is bound once, while its fragment carries
\* two placeholders.
SearchBindsPatternOnce(params) ==
    (IF IsSome(params.q) THEN <<Text(Pattern(params.q[1]))>> ELSE << >>)
    \o (IF IsSome(params.category) THEN <<Text(params.category[1])>> ELSE << >>)
    \o (IF IsSome(params.venue)
        THEN <<Text(Pattern(params.venue[1]))>> ELSE << >>)
    \o (IF IsSome(params.location)
        THEN <<Text(Pattern(params.location[1]))>> ELSE << >>)
    \o (IF IsSome(params.start_after)
        THEN <<Timestamp(params.start_after[1])>> ELSE << >>)
    \o (IF IsSome(params.start_before)
        THEN <<Timestamp(params.start_before[1])>> ELSE << >>)
    \o (IF IsSome(params.max_price)
        THEN <<Float(params.max_price[1])>> ELSE << >>)
    \o <<Int4(SearchLimit(params)), Int4(SearchOffset(params))>>

\* Mutation: the venue pattern is bound before the category.
SearchBindsVenueFirst(params) ==
    (IF IsSome(params.q)
     THEN <<Text(Pattern(params.q[1])), Text(Pattern(params.q[1]))>>
     ELSE << >>)
    \o (IF IsSome(params.venue)
        THEN <<Text(Pattern(params.venue[1]))>> ELSE << >>)
    \o (IF IsSome(params.category) THEN <<Text(params.category[1])>> ELSE << >>)
    \o (IF IsSome(params.location)
        THEN <<Text(Pattern(params.location[1]))>> ELSE << >>)
    \o (IF IsSome(params.start_after)
        THEN <<Timestamp(params.start_after[1])>> ELSE << >>)
    \o (IF IsSome(params.start_before)
        THEN <<Timestamp(params.start_before[1])>> ELSE << >>)
    \o (IF IsSome(params.max_price)
        THEN <<Float(params.max_price[1])>> ELSE << >>)
    \o <<Int4(SearchLimit(params)), Int4(SearchOffset(params))>>

\* The .bind() calls of search_events, in the order they are made.
SearchBinds(params) ==
    (IF IsSome(params.q)
     THEN <<Text(Pattern(params.q[1])), Text(Pattern(params.q[1]))>>
     ELSE << >>)
    \o (IF IsSome(params.category) THEN <<Text(params.category[1])>> ELSE << >>)
    \o (IF IsSome(params.venue)
        THEN <<Text(Pattern(params.venue[1]))>> ELSE << >>)
    \o (IF IsSome(params.location)
        THEN <<Text(Pattern(params.location[1]))>> ELSE << >>)
    \o (IF IsSome(params.start_after)
        THEN <<Timestamp(params.start_after[1])>> ELSE << >>)
    \o (IF IsSome(params.start_before)
        THEN <<Timestamp(params.start_before[1])>> ELSE << >>)
    \o (IF IsSome(params.max_price)
        THEN <<Float(params.max_price[1])>> ELSE << >>)
    \o <<Int4(SearchLimit(params)), Int4(SearchOffset(params))>>

\* An operand of LIMIT or OFFSET: a placeholder, a literal, or no clause.
Param(n) == [kind |-> "param", n |-> n]
Literal(n) == [kind |-> "literal", n |-> n]
NoClause == [kind |-> "none", n |-> 0]

\* The statement search_events sends to the store.
SearchQuery(params) ==
    LET s == SearchConditions(params)
    IN [text |-> SearchText(params),
        conditions |-> s.conditions,
        join |-> TRUE,
        order |-> "start_time",
        limit |-> Param(s.bind_index),
        offset |-> Param(s.bind_index + 1),
        binds |-> SearchBinds(params)]

\* list_events: a fixed statement with the limit as its one parameter.
ListEventsQuery(limit) ==
    [text |-> EventSelectJoin \o " WHERE e.start_time >= NOW()"
                \o " ORDER BY e.start_time ASC LIMIT $1",
     conditions |-> <<Fragment("upcoming", << >>)>>,
     join |-> TRUE,
     order |-> "start_time",
     limit |-> Param(1),
     offset |-> NoClause,
     binds |-> <<Int4(ListEventsLimit(limit))>>]

(***************************************************************************)
(* search_events_with_params (services/llm.rs): the query compiled from    *)
(* the SearchParams the intent service extracted.                          *)
(***************************************************************************)
\* EVENT_COLUMNS and the FROM clause: no join, no column qualifier.
EventSelectPlain ==
    "SELECT id, title, description, venue, venue_address, location, "
    \o "source_url, source_name, start_time, end_time, categories, "
    \o "price_min, price_max, outdoor, family_friendly, image_url, "
    \o "created_at, updated_at FROM events"

\* conditions starts empty; the time constraint is the bound date_from when
\* one is given and NOW() otherwise; the boolean fragments come last.
IntentConditions(params) ==
    LET s0 == [conditions |-> << >>, bind_index |-> 1]
        s1 == IF IsSome(params.query) THEN Push(s0, "text", 2) ELSE s0
        s2 == IF IsSome(params.category) THEN Push(s1, "category", 1) ELSE s1
        s3 == IF IsSome(params.date_from) THEN Push(s2, "start_ge", 1)
              ELSE Push(s2, "upcoming", 0)
        s4 == IF IsSome(params.date_to) THEN Push(s3, "start_le", 1) ELSE s3
        s5 == IF IsSome(params.location) THEN Push(s4, "location", 1) ELSE s4
        s6 == IF IsSome(params.price_max) THEN Push(s5, "price", 1) ELSE s5
        s7 == IF params.outdoor = Some(TRUE) THEN Push(s6, "outdoor", 0) ELSE s6
    IN IF params.family_friendly = Some(TRUE)
       THEN Push(s7, "family_friendly", 0) ELSE s7

\* let where_clause = if conditions.is_empty() { "WHERE start_time >= NOW()" }
\*                    else { format!("WHERE {}", conditions.join(" AND ")) };
IntentWhereClause(conditions) ==
    IF conditions = << >> THEN "WHERE start_time >= NOW()"
    ELSE "WHERE " \o Join(FragmentTexts(conditions, ""), " AND ")

\* format!("SELECT {} FROM events {} ORDER BY start_time ASC LIMIT 20", ..)
IntentText(params) ==
    EventSelectPlain \o " " \o IntentWhereClause(IntentConditions(params).conditions)
    \o " ORDER BY start_time ASC LIMIT " \o ToString(IntentSearchLimit)

\* The .bind() calls of search_events_with_params, in order.  date_from and
\* date_to are Strings and are bound as text.
IntentBinds(params) ==
    (IF IsSome(params.query)
     THEN <<Text(Pattern(params.query[1])), Text(Pattern(params.query[1]))>>
     ELSE << >>)
    \o (IF IsSome(params.category) THEN <<Text(params.category[1])>> ELSE << >>)
    \o (IF IsSome(params.date_from) THEN <<Text(params.date_from[1])>> ELSE << >>)
    \o (IF IsSome(params.date_to) THEN <<Text(params.date_to[1])>> ELSE << >>)
    \o (IF IsSome(params.location)
        THEN <<Text(Pattern(params.location[1]))>> ELSE << >>)
    \o (IF IsSome(params.price_max)
        THEN <<Float(params.price_max[1])>> ELSE << >>)

\* The statement search_events_with_params sends to the store.
IntentQuery(params) ==
    [text |-> IntentText(params),
     conditions |-> IntentConditions(params).conditions,
     join |-> FALSE,
     order |-> "start_time",
     limit |-> Literal(IntentSearchLimit),
     offset |-> NoClause,
     binds |-> IntentBinds(params)]

(***************************************************************************)
(* The store's side of a query: preparing the statement against the bound  *)
(* values, evaluating the WHERE fragments on a row, the LEFT JOIN to       *)
(* venues, ORDER BY, LIMIT and OFFSET.                                     *)
(***************************************************************************)
\* text LIKE pattern: % matches any run of characters, _ any one character,
\* and a backslash (the default escape character) makes the character after
\* it stand for itself.  A pattern that ends with the escape character
\* matches nothing here; Pattern never builds one, since it ends every
\* pattern with %.
RECURSIVE LikeMatch(_, _)
LikeMatch(s, p) ==
    IF p = << >> THEN s = << >>
    ELSE IF Head(p) = "\\"
         THEN /\ Len(p) >= 2
              /\ s # << >>
              /\ Head(s) = p[2]
              /\ LikeMatch(Tail(s), Tail(Tail(p)))
    ELSE IF Head(p) = "%"
         THEN LikeMatch(s, Tail(p)) \/ (s # << >> /\ LikeMatch(Tail(s), p))
    ELSE IF s = << >> THEN FALSE
    ELSE (Head(p) = "_" \/ Head(s) = Head(p)) /\ LikeMatch(Tail(s), Tail(p))

\* column ILIKE pattern: case-insensitive LIKE; NULL ILIKE .. is not true.
ILike(column, p) == IsSome(column) /\ LikeMatch(Lower(column[1]), Lower(p))

\* $n = ANY(categories): some element equals the value; NULL array: not true.
AnyEquals(v, arr) == IsSome(arr) /\ \E i \in 1..Len(arr[1]) : arr[1][i] = v

\* The SQL type a fragment's placeholders must have for the statement to
\* prepare: text for ILIKE and ANY(text[]), timestamptz against start_time,
\* float8 against price_min.
OperandType(test) ==
    CASE test \in {"text", "category", "venue", "location"} -> "text"
      [] test \in {"start_ge", "start_le"} -> "timestamptz"
      [] test = "price" -> "float8"
      [] OTHER -> "none"

\* The placeholders a statement mentions.
Placeholders(q) ==
    UNION {{q.conditions[i].slots[k] : k \in 1..Len(q.conditions[i].slots)} :
              i \in 1..Len(q.conditions)}
    \cup (IF q.limit.kind = "param" THEN {q.limit.n} ELSE {})
    \cup (IF q.offset.kind = "param" THEN {q.offset.n} ELSE {})

\* The statement prepares and binds: its placeholders are $1..$n for the n
\* values supplied, and every comparison has an operator for the supplied
\* type (there is none between timestamptz and text).
Prepares(q) ==
    /\ Placeholders(q) = 1..Len(q.binds)
    /\ \A i \in 1..Len(q.conditions) :
          \A k \in 1..Len(q.conditions[i].slots) :
             q.binds[q.conditions[i].slots[k]].ty = OperandType(q.conditions[i].test)
    /\ q.limit.kind = "param" => q.binds[q.limit.n].ty = "int4"
    /\ q.offset.kind = "param" => q.binds[q.offset.n].ty = "int4"

\* The value of the LIMIT and of the OFFSET operand.
LimitValue(q) == IF q.limit.kind = "param" THEN q.binds[q.limit.n].v ELSE q.limit.n
OffsetValue(q) ==
    IF q.offset.kind = "param" THEN q.binds[q.offset.n].v ELSE 0

\* Mutation: the price test has no IS NULL alternative.
EvalFragmentPriceNotNull(f, binds, e, now) ==
    CASE f.test = "upcoming" -> e.start_time >= now
      [] f.test = "text" ->
            \/ ILike(Some(e.title), binds[f.slots[1]].v)
            \/ ILike(e.description, binds[f.slots[2]].v)
      [] f.test = "category" -> AnyEquals(binds[f.slots[1]].v, e.categories)
      [] f.test = "venue" -> ILike(e.venue, binds[f.slots[1]].v)
      [] f.test = "location" -> ILike(e.location, binds[f.slots[1]].v)
      [] f.test = "start_ge" -> e.start_time >= binds[f.slots[1]].v
      [] f.test = "start_le" -> e.start_time <= binds[f.slots[1]].v
      [] f.test = "outdoor" -> e.outdoor = Some(TRUE)
      [] f.test = "family_friendly" -> e.family_friendly = Some(TRUE)
      [] f.test = "price" ->
            IsSome(e.price_min) /\ e.price_min[1] <= binds[f.slots[1]].v

\* Whether a fragment is true of event row e at store time now.
EvalFragment(f, binds, e, now) ==
    CASE f.test = "upcoming" -> e.start_time >= now
      [] f.test = "text" ->
            \/ ILike(Some(e.title), binds[f.slots[1]].v)
            \/ ILike(e.description, binds[f.slots[2]].v)
      [] f.test = "category" -> AnyEquals(binds[f.slots[1]].v, e.categories)
      [] f.test = "venue" -> ILike(e.venue, binds[f.slots[1]].v)
      [] f.test = "location" -> ILike(e.location, binds[f.slots[1]].v)
      [] f.test = "start_ge" -> e.start_time >= binds[f.slots[1]].v
      [] f.test = "start_le" -> e.start_time <= binds[f.slots[1]].v
      [] f.test = "outdoor" -> e.outdoor = Some(TRUE)
      [] f.test = "family_friendly" -> e.family_friendly = Some(TRUE)
      [] f.test = "price" ->
            IsNone(e.price_min) \/ e.price_min[1] <= binds[f.slots[1]].v

\* WHERE c1 AND c2 AND ..: every fragment is true of the row.
Satisfies(q, e, now) ==
    \A i \in 1..Len(q.conditions) : EvalFragment(q.conditions[i], q.binds, e, now)

\* FROM events, without the join.
PlainRows(evs) == {[e |-> e, v |-> None] : e \in evs}

\* ORDER BY start_time ASC: every arrangement of the rows with start times
\* ascending; rows with equal start times come in either order.
RECURSIVE Orderings(_)
Orderings(rows) ==
    IF rows = {} THEN {<< >>}
    ELSE UNION {{<<j>> \o rest : rest \in Orderings(rows \ {j})} :
                    j \in {x \in rows :
                              \A y \in rows : x.e.start_time <= y.e.start_time}}

\* OFFSET off LIMIT lim applied to the ordered rows.
Page(rows, off, lim) ==
    SubSeq(rows, off + 1, Min(Len(rows), off + lim))

\* The outcome of a statement the store could not run.
StoreError == [ok |-> FALSE, rows |-> << >>]

\* The outcomes of running an event query: the store raises an error for a
\* statement that does not prepare and for a negative LIMIT or OFFSET;
\* otherwise it answers with a page of the ordered matching rows.
ExecQuery(q, evs, vns, now) ==
    IF ~Prepares(q) THEN {StoreError}
    ELSE IF LimitValue(q) < 0 \/ OffsetValue(q) < 0 THEN {StoreError}
    ELSE LET from == IF q.join THEN JoinedRows(evs, vns) ELSE PlainRows(evs)
             matched == {j \in from : Satisfies(q, j.e, now)}
         IN {[ok |-> TRUE,
              rows |-> Page(o, OffsetValue(q), LimitValue(q))] :
                o \in Orderings(matched)}

(***************************************************************************)
(* Read handlers.  Each runs one statement and answers; rd holds the       *)
(* request being served and its answer until the response is sent.         *)
(* fetched records that the store ran the statement without an error.      *)
(***************************************************************************)
StatusNotFound == 404

RdIdle == [handler |-> "idle", params |-> None, query |-> None,
           fetched |-> FALSE, status |-> 0, body |-> None]

\* What is left alone by a handler that only reads the store.
ReadOnly ==
    UNCHANGED <<events, venues, clock, nextId, calls, epc, ecall, vpc, vcall,
                users, upc, ucall, chat, dbclock>>

\* fetch_all(..).map_err(|_| INTERNAL_SERVER_ERROR)?; Ok(Json(rows))
CollectionAnswer(handler, params, q, res, body) ==
    [handler |-> handler, params |-> Some(params), query |-> q,
     fetched |-> res.ok,
     status |-> IF res.ok THEN StatusOk ELSE StatusInternalServerError,
     body |-> IF res.ok THEN Some(body) ELSE None]

\* Mutation: a lookup that finds no row answers 200 with no body.
SingleAnswerOkWhenMissing(handler, id, ok, found) ==
    [handler |-> handler, params |-> Some(id), query |-> None,
     fetched |-> ok,
     status |-> IF ~ok THEN StatusInternalServerError ELSE StatusOk,
     body |-> IF ok /\ found # {} THEN Some(CHOOSE r \in found : TRUE) ELSE None]

\* fetch_optional(..).map_err(|_| INTERNAL_SERVER_ERROR)?;
\* match row { Some(r) => Ok(Json(r)), None => Err(StatusCode::NOT_FOUND) }
\* found holds the row fetch_optional answered with, if any.
SingleAnswer(handler, id, ok, found) ==
    [handler |-> handler, params |-> Some(id), query |-> None,
     fetched |-> ok,
     status |-> IF ~ok THEN StatusInternalServerError
                ELSE IF found = {} THEN StatusNotFound ELSE StatusOk,
     body |-> IF ok /\ found # {} THEN Some(CHOOSE r \in found : TRUE) ELSE None]

\* The rows of an answer as the handler serialises them.
JoinedEvents(rows) == [i \in 1..Len(rows) |-> JoinedEvent(rows[i])]

\* search_events (GET /api/events/search).
SearchEvents(params) ==
    /\ rd.handler = "idle"
    /\ LET q == SearchQuery(params)
       IN \E res \in ExecQuery(q, events, venues, dbclock) \cup {StoreError} :
             rd' = CollectionAnswer("search_events", params, Some(q), res,
                                    JoinedEvents(res.rows))
    /\ ReadOnly

\* list_events (GET /api/events).
ListEvents(limit) ==
    /\ rd.handler = "idle"
    /\ LET q == ListEventsQuery(limit)
       IN \E res \in ExecQuery(q, events, venues, dbclock) \cup {StoreError} :
             rd' = CollectionAnswer("list_events", [limit |-> limit], Some(q),
                                    res, JoinedEvents(res.rows))
    /\ ReadOnly

\* get_event (GET /api/events/:id): WHERE e.id = $1 over the joined rows;
\* fetch_optional answers with the first row the store produces.
GetEvent(id) ==
    /\ rd.handler = "idle"
    /\ LET found == {j \in JoinedRows(events, venues) : j.e.id = id}
       IN \/ \E j \in found :
                rd' = SingleAnswer("get_event", id, TRUE, {JoinedEvent(j)})
          \/ found = {} /\ rd' = SingleAnswer("get_event", id, TRUE, {})
          \/ rd' = SingleAnswer("get_event", id, FALSE, {})
    /\ ReadOnly

\* SELECT .. FROM venues [WHERE website IS NULL OR website = '']
VenuesListed(vns, missing_website) ==
    IF UnwrapOr(missing_website, FALSE)
    THEN {v \in vns : IsNone(v.website) \/ v.website = Some("")}
    ELSE vns

\* ORDER BY name ASC: the order of two different names is the collation's;
\* every arrangement of the rows is taken as possible.
RECURSIVE Arrangements(_)
Arrangements(rows) ==
    IF rows = {} THEN {<< >>}
    ELSE UNION {{<<r>> \o rest : rest \in Arrangements(rows \ {r})} : r \in rows}

\* The statement list_venues sends: one of two fixed texts, with the limit as
\* its one parameter.
ListVenuesQuery(params) ==
    [text |-> "SELECT id, name, address, city, capacity, venue_type, "
                \o "noise_level, parking_info, accessibility_info, website, "
                \o "created_at, latitude, longitude FROM venues"
                \o (IF UnwrapOr(params.missing_website, FALSE)
                    THEN " WHERE website IS NULL OR website = ''" ELSE "")
                \o " ORDER BY name ASC LIMIT $1",
     conditions |-> << >>,
     join |-> FALSE,
     order |-> "name",
     limit |-> Param(1),
     offset |-> NoClause,
     binds |-> <<Int4(ListVenuesLimit(params.limit))>>]

\* The outcomes of the list_venues statement.
ExecListVenues(q, vns, missing_website) ==
    IF LimitValue(q) < 0 THEN {StoreError}
    ELSE {[ok |-> TRUE, rows |-> Page(o, 0, LimitValue(q))] :
             o \in Arrangements(VenuesListed(vns, missing_website))}

\* list_venues (GET /api/venues).
ListVenues(params) ==
    /\ rd.handler = "idle"
    /\ LET q == ListVenuesQuery(params)
       IN \E res \in ExecListVenues(q, venues, params.missing_website)
                        \cup {StoreError} :
             rd' = CollectionAnswer("list_venues", params, Some(q), res, res.rows)
    /\ ReadOnly

\* get_venue (GET /api/venues/:id).
GetVenue(id) ==
    /\ rd.handler = "idle"
    /\ \/ \E v \in VenuesById(venues, id) :
             rd' = SingleAnswer("get_venue", id, TRUE, {v})
       \/ VenuesById(venues, id) = {}
          /\ rd' = SingleAnswer("get_venue", id, TRUE, {})
       \/ rd' = SingleAnswer("get_venue", id, FALSE, {})
    /\ ReadOnly

\* SELECT .. FROM users WHERE id = $1
UsersById(rows, id) == {u \in rows : u.id = id}

\* get_user (GET /api/users/:id).
GetUser(id) ==
    /\ rd.handler = "idle"
    /\ \/ \E u \in UsersById(users, id) :
             rd' = SingleAnswer("get_user", id, TRUE, {u})
       \/ UsersById(users, id) = {}
          /\ rd' = SingleAnswer("get_user", id, TRUE, {})
       \/ rd' = SingleAnswer("get_user", id, FALSE, {})
    /\ ReadOnly

\* The response is sent and the handler returns.
RdFinish ==
    /\ rd.handler # "idle"
    /\ rd' = RdIdle
    /\ ReadOnly

\* CreateUser payloads.
UserPayloads ==
    {[email |-> "a@example.org", name |-> Some("Ann"),
      location_preference |-> None]}

(***************************************************************************)
(* create_user (POST /api/users).                                          *)
(*   idle -> insert -> done -> idle                                        *)
(* The handler takes the id and the time on entry and awaits the INSERT,   *)
(* so other requests and the clock may move in between.                    *)
(***************************************************************************)
UserIdle == [payload |-> None, id |-> 0, created_at |-> 0, status |-> 0,
             body |-> None]

\* The User the handler builds from its locals and the payload.
UserRow(c) ==
    [id |-> c.id, email |-> c.payload[1].email, name |-> c.payload[1].name,
     location_preference |-> c.payload[1].location_preference,
     created_at |-> c.created_at]

\* Entry: let id = Uuid::new_v4(); let created_at = chrono::Utc::now();
CreateUserEntry(h, p) ==
    /\ upc[h] = "idle"
    /\ \A g \in Procs : g < h => upc[g] # "idle"
    /\ calls < MaxCalls
    /\ calls' = calls + 1
    /\ nextId' = nextId + 1
    /\ ucall' = [ucall EXCEPT ![h] = [UserIdle EXCEPT !.payload = Some(p),
                                                      !.id = nextId,
                                                      !.created_at = clock]]
    /\ upc' = [upc EXCEPT ![h] = "insert"]
    /\ UNCHANGED <<events, venues, clock, epc, ecall, vpc, vcall, users, rd,
                   chat, dbclock>>

\* The INSERT succeeds: the handler answers (StatusCode::CREATED, Json(user)).
CreateUserInsert(h) ==
    /\ upc[h] = "insert"
    /\ users' = users \cup {UserRow(ucall[h])}
    /\ ucall' = [ucall EXCEPT ![h].status = StatusCreated,
                              ![h].body = Some(UserRow(ucall[h]))]
    /\ upc' = [upc EXCEPT ![h] = "done"]
    /\ UNCHANGED <<events, venues, clock, nextId, calls, epc, ecall, vpc, vcall,
                   rd, chat, dbclock>>

\* The INSERT fails: map_err(|_| INTERNAL_SERVER_ERROR)? answers 500.
CreateUserInsertFail(h) ==
    /\ upc[h] = "insert"
    /\ ucall' = [ucall EXCEPT ![h].status = StatusInternalServerError]
    /\ upc' = [upc EXCEPT ![h] = "done"]
    /\ UNCHANGED <<events, venues, clock, nextId, calls, epc, ecall, vpc, vcall,
                   users, rd, chat, dbclock>>

\* The response has been sent; the handler's locals are dropped.
CreateUserFinish(h) ==
    /\ upc[h] = "done"
    /\ ucall' = [ucall EXCEPT ![h] = UserIdle]
    /\ upc' = [upc EXCEPT ![h] = "idle"]
    /\ UNCHANGED <<events, venues, clock, nextId, calls, epc, ecall, vpc, vcall,
                   users, rd, chat, dbclock>>

(***************************************************************************)
(* The chat pipeline (services/llm.rs, process_chat_message):              *)
(*   idle -> parse_intent -> parse_intent_body -> search -> generate ->    *)
(*   generate_body -> done -> idle                                         *)
(* A call to the service awaits twice: send(), then the body of the        *)
(* response (json(), or text() on a non-success status); other requests    *)
(* and the clock may move at each await.  response is the response in      *)
(* hand between the two.  Each ? returns the error of the step that        *)
(* failed.  reply is a history field: what the intent service did, set     *)
(* when parse_intent returns.  searched and generated record that the      *)
(* step was entered.                                                       *)
(***************************************************************************)
ChatIdle == [pc |-> "idle", response |-> None, reply |-> None,
             params |-> None, query |-> None,
             events |-> None, result |-> "none", error |-> "none",
             searched |-> FALSE, generated |-> FALSE]

\* SearchParams with every field absent (SearchParams::default()).
NoSearchParams ==
    [query |-> None, category |-> None, date_from |-> None, date_to |-> None,
     location |-> None, price_max |-> None, outdoor |-> None,
     family_friendly |-> None]

\* What the intent service may do with a request: it cannot be reached, it
\* answers with a non-success status, it answers 200 with a body that is no
\* ParseIntentResponse, or it answers 200 with parameters.
Unreachable == [reached |-> FALSE, status |-> 0, parses |-> FALSE, params |-> None]
NonSuccess == [reached |-> TRUE, status |-> 503, parses |-> FALSE, params |-> None]
Malformed == [reached |-> TRUE, status |-> 200, parses |-> FALSE, params |-> None]
Parsed(p) == [reached |-> TRUE, status |-> 200, parses |-> TRUE, params |-> Some(p)]

FailingReplies == {Unreachable, NonSuccess, Malformed}

\* response.status().is_success()
IsSuccess(status) == status >= 200 /\ status < 300

Ok(v) == [ok |-> TRUE, value |-> Some(v), error |-> "none"]
Err(e) == [ok |-> FALSE, value |-> None, error |-> e]

\* Mutation: a failure of the intent service is answered with empty
\* parameters.
ParseIntentDefaultsOnFailure(reply) ==
    IF reply.reached /\ IsSuccess(reply.status) /\ reply.parses
    THEN Ok(reply.params[1])
    ELSE Ok(NoSearchParams)

\* LlmClient::parse_intent: send().await? ; a non-success status returns
\* ServiceError; response.json().await? ; Ok(parsed.params).
ParseIntent(reply) ==
    IF ~reply.reached THEN Err("HttpError")
    ELSE IF ~IsSuccess(reply.status) THEN Err("ServiceError")
    ELSE IF ~reply.parses THEN Err("HttpError")
    ELSE Ok(reply.params[1])

\* sqlx::query_as::<_, models::Event>: every row is read into models::Event,
\* whose category column is not among the selected columns, so a result
\* with a row fails with ColumnNotFound; an empty result decodes.
DecodeModelEvents(rows) ==
    IF rows = << >> THEN Ok(<< >>) ELSE Err("ColumnNotFound")

\* The call arrives.
ChatStart ==
    /\ chat.pc = "idle"
    /\ chat' = [ChatIdle EXCEPT !.pc = "parse_intent"]
    /\ UNCHANGED <<events, venues, clock, nextId, calls, epc, ecall, vpc, vcall,
                   users, upc, ucall, rd, dbclock>>

\* parse_intent has returned r for what the service did: ? ends the call on
\* an error, and the parameters go to the search otherwise.
AfterParseIntent(c, reply, r) ==
    IF r.ok
    THEN [c EXCEPT !.pc = "search", !.response = None, !.reply = Some(reply),
                   !.params = r.value]
    ELSE [c EXCEPT !.pc = "done", !.response = None, !.reply = Some(reply),
                   !.result = "err", !.error = r.error]

\* Step 1, first await: let response = ..send().await?; a request that does
\* not reach the service ends parse_intent here.
ChatParseIntentSend(reply) ==
    /\ chat.pc = "parse_intent"
    /\ chat' = IF reply.reached
               THEN [chat EXCEPT !.pc = "parse_intent_body",
                                 !.response = Some(reply)]
               ELSE AfterParseIntent(chat, reply, ParseIntent(reply))
    /\ UNCHANGED <<events, venues, clock, nextId, calls, epc, ecall, vpc, vcall,
                   users, upc, ucall, rd, dbclock>>

\* Step 1, second await: response.text().await on a non-success status,
\* response.json().await? otherwise; parse_intent returns.
ChatParseIntentBody ==
    /\ chat.pc = "parse_intent_body"
    /\ chat' = AfterParseIntent(chat, chat.response[1],
                                ParseIntent(chat.response[1]))
    /\ UNCHANGED <<events, venues, clock, nextId, calls, epc, ecall, vpc, vcall,
                   users, upc, ucall, rd, dbclock>>

\* Step 2: let events = search_events_with_params(&params, pool).await?;
ChatSearch ==
    /\ chat.pc = "search"
    /\ LET q == IntentQuery(chat.params[1])
       IN \E res \in ExecQuery(q, events, venues, dbclock) \cup {StoreError} :
             LET d == IF res.ok
                      THEN DecodeModelEvents([i \in 1..Len(res.rows) |-> res.rows[i].e])
                      ELSE Err("Database")
             IN chat' = IF d.ok
                        THEN [chat EXCEPT !.pc = "generate", !.query = Some(q),
                                          !.events = d.value,
                                          !.searched = TRUE]
                        ELSE [chat EXCEPT !.pc = "done", !.query = Some(q),
                                          !.result = "err", !.error = d.error,
                                          !.searched = TRUE]
    /\ UNCHANGED <<events, venues, clock, nextId, calls, epc, ecall, vpc, vcall,
                   users, upc, ucall, rd, dbclock>>

\* What the chat service may do with a request: the failures of the intent
\* service, or 200 with a ChatResponse.
Answered == [reached |-> TRUE, status |-> 200, parses |-> TRUE, params |-> None]

ChatReplies == FailingReplies \cup {Answered}

\* LlmClient::generate_response: send().await? ; a non-success status returns
\* ServiceError; response.json().await? ; Ok(chat_response.reply).
GenerateResponse(reply) ==
    IF ~reply.reached THEN Err("HttpError")
    ELSE IF ~IsSuccess(reply.status) THEN Err("ServiceError")
    ELSE IF ~reply.parses THEN Err("HttpError")
    ELSE Ok("reply")

\* generate_response has returned r: ? ends the call on an error, and the
\* call returns Ok((reply, events)) otherwise.
AfterGenerateResponse(c, r) ==
    IF r.ok
    THEN [c EXCEPT !.pc = "done", !.response = None, !.result = "ok",
                   !.generated = TRUE]
    ELSE [c EXCEPT !.pc = "done", !.response = None, !.result = "err",
                   !.error = r.error, !.generated = TRUE]

\* Step 3, first await: let response = ..send().await?; a request that does
\* not reach the service ends generate_response here.
ChatGenerateSend(reply) ==
    /\ chat.pc = "generate"
    /\ chat' = IF reply.reached
               THEN [chat EXCEPT !.pc = "generate_body",
                                 !.response = Some(reply), !.generated = TRUE]
               ELSE AfterGenerateResponse(chat, GenerateResponse(reply))
    /\ UNCHANGED <<events, venues, clock, nextId, calls, epc, ecall, vpc, vcall,
                   users, upc, ucall, rd, dbclock>>

\* Step 3, second await: response.text().await on a non-success status,
\* response.json().await? otherwise; generate_response returns.
ChatGenerateBody ==
    /\ chat.pc = "generate_body"
    /\ chat' = AfterGenerateResponse(chat, GenerateResponse(chat.response[1]))
    /\ UNCHANGED <<events, venues, clock, nextId, calls, epc, ecall, vpc, vcall,
                   users, upc, ucall, rd, dbclock>>

\* process_chat_message returns.
ChatFinish ==
    /\ chat.pc = "done"
    /\ chat' = ChatIdle
    /\ UNCHANGED <<events, venues, clock, nextId, calls, epc, ecall, vpc, vcall,
                   users, upc, ucall, rd, dbclock>>

(***************************************************************************)
(* Requests of the read side.                                              *)
(***************************************************************************)
\* A SearchQuery with every field absent.
NoFilters ==
    [q |-> None, category |-> None, venue |-> None, location |-> None,
     start_after |-> None, start_before |-> None, outdoor |-> None,
     family_friendly |-> None, max_price |-> None, offset |-> None,
     limit |-> None]

\* Search terms.
Night == <<"n", "i", "g", "h", "t">>
Town == <<"t", "o", "w", "n">>
Hall == <<"h", "a", "l", "l">>
PaddedJazz == <<" ", "j", "a", "z", "z", " ">>
Blank == <<" ">>
Empty == << >>
\* The escape character of LIKE alone: wrapped as %\%, the pattern of a text
\* that ends with a percent sign.
Backslash == <<"\\">>

\* The filters of a request that gives the fields in present, each with its
\* value from the value set pick (1 or 2), and the boolean filters as given.
FiltersOf(present, pick, outdoor, family_friendly) ==
    [q |-> IF "q" \in present
           THEN Some(IF pick = 1 THEN Jazz ELSE Night) ELSE None,
     category |-> IF "category" \in present
                  THEN Some(IF pick = 1 THEN Music ELSE Jazz) ELSE None,
     venue |-> IF "venue" \in present
               THEN Some(IF pick = 1 THEN Hall ELSE TheBarn) ELSE None,
     location |-> IF "location" \in present
                  THEN Some(IF pick = 1 THEN Town ELSE Midtown) ELSE None,
     start_after |-> IF "start_after" \in present
                     THEN Some(IF pick = 1 THEN 0 ELSE 1) ELSE None,
     start_before |-> IF "start_before" \in present
                      THEN Some(IF pick = 1 THEN 3 ELSE 4) ELSE None,
     outdoor |-> outdoor,
     family_friendly |-> family_friendly,
     max_price |-> IF "max_price" \in present
                   THEN Some(IF pick = 1 THEN 15 ELSE 25) ELSE None,
     offset |-> IF "offset" \in present
                THEN Some(IF pick = 1 THEN 1 ELSE 2) ELSE None,
     limit |-> IF "limit" \in present
               THEN Some(IF pick = 1 THEN 10 ELSE 20) ELSE None]

SearchFields ==
    {"q", "category", "venue", "location", "start_after", "start_before",
     "max_price", "offset", "limit"}

OptionalBools == {None, Some(TRUE), Some(FALSE)}

\* Limits and offsets a caller may ask for.
RequestedLimits == {None, Some(0), Some(-5), Some(1), Some(10), Some(10000)}
RequestedOffsets == {None, Some(-1), Some(0), Some(1)}

\* Text values a caller may send in q, venue and location.
RequestedTexts == {None, Some(Empty), Some(Blank), Some(PaddedJazz), Some(Jazz)}

\* The search requests explored against the compiler: every combination of
\* present and absent fields with two different sets of values, every
\* requested limit and offset, and every combination of text values.
SearchRequests ==
    {FiltersOf(present, pick, o, f) :
        present \in SUBSET SearchFields, pick \in {1, 2},
        o \in OptionalBools, f \in {None, Some(TRUE)}}
    \cup {[NoFilters EXCEPT !.limit = l, !.offset = o] :
            l \in RequestedLimits, o \in RequestedOffsets}
    \cup {[NoFilters EXCEPT !.q = t, !.venue = v, !.location = l] :
            t \in RequestedTexts, v \in RequestedTexts, l \in RequestedTexts}

\* The search requests explored against a store with events in it.
StoreSearchRequests ==
    {NoFilters,
     [NoFilters EXCEPT !.start_after = Some(0)],
     [NoFilters EXCEPT !.outdoor = Some(TRUE)],
     [NoFilters EXCEPT !.outdoor = Some(FALSE)],
     [NoFilters EXCEPT !.family_friendly = Some(TRUE)],
     [NoFilters EXCEPT !.family_friendly = Some(FALSE)],
     [NoFilters EXCEPT !.max_price = Some(15)],
     [NoFilters EXCEPT !.max_price = Some(25)],
     [NoFilters EXCEPT !.q = Some(Jazz)],
     [NoFilters EXCEPT !.q = Some(Empty)],
     [NoFilters EXCEPT !.q = Some(PaddedJazz)],
     [NoFilters EXCEPT !.q = Some(Backslash)],
     [NoFilters EXCEPT !.venue = Some(Empty)],
     [NoFilters EXCEPT !.location = Some(Blank)],
     [NoFilters EXCEPT !.limit = Some(1)],
     [NoFilters EXCEPT !.limit = Some(0)],
     [NoFilters EXCEPT !.offset = Some(1)],
     [NoFilters EXCEPT !.offset = Some(-1)]}

\* ListQuery of list_venues.
ListVenuesRequests ==
    {[limit |-> l, missing_website |-> m] :
        l \in RequestedLimits, m \in OptionalBools}

\* Dates as the intent service writes them (YYYY-MM-DD).
JanFirst == <<"2", "0", "2", "6", "-", "0", "1", "-", "0", "1">>
JanSecond == <<"2", "0", "2", "6", "-", "0", "1", "-", "0", "2">>
JanThird == <<"2", "0", "2", "6", "-", "0", "1", "-", "0", "3">>

\* The SearchParams the intent service may answer with.
IntentFields ==
    {"query", "category", "date_from", "date_to", "location", "price_max"}

IntentParamsOf(present, pick, outdoor, family_friendly) ==
    [query |-> IF "query" \in present
               THEN Some(IF pick = 1 THEN Jazz ELSE Night) ELSE None,
     category |-> IF "category" \in present
                  THEN Some(IF pick = 1 THEN Music ELSE Jazz) ELSE None,
     date_from |-> IF "date_from" \in present
                   THEN Some(IF pick = 1 THEN JanFirst ELSE JanSecond) ELSE None,
     date_to |-> IF "date_to" \in present
                 THEN Some(IF pick = 1 THEN JanSecond ELSE JanThird) ELSE None,
     location |-> IF "location" \in present
                  THEN Some(IF pick = 1 THEN Town ELSE Midtown) ELSE None,
     price_max |-> IF "price_max" \in present
                   THEN Some(IF pick = 1 THEN 15 ELSE 25) ELSE None,
     outdoor |-> outdoor,
     family_friendly |-> family_friendly]

IntentParams ==
    {IntentParamsOf(present, pick, o, f) :
        present \in SUBSET IntentFields, pick \in {1, 2},
        o \in OptionalBools, f \in OptionalBools}

StoreIntentParams ==
    {NoSearchParams,
     [NoSearchParams EXCEPT !.outdoor = Some(TRUE)],
     [NoSearchParams EXCEPT !.outdoor = Some(FALSE)],
     [NoSearchParams EXCEPT !.family_friendly = Some(TRUE)],
     [NoSearchParams EXCEPT !.date_from = Some(JanFirst)],
     [NoSearchParams EXCEPT !.price_max = Some(15)],
     [NoSearchParams EXCEPT !.location = Some(Blank)]}

\* The events posted to the store that is searched: an event and its
\* re-scrape under one source_url, and a bare and a full event under another.
StoreEventPayloads ==
    {PayloadFull("https://x/1"), PayloadRescrape("https://x/1"),
     PayloadBare("https://x/2"), PayloadRescrape("https://x/2")}

\* Every request handler and the chat pipeline are idle.
Quiescent ==
    /\ \A h \in Procs : epc[h] = "idle" /\ vpc[h] = "idle" /\ upc[h] = "idle"
    /\ rd.handler = "idle"
    /\ chat.pc = "idle"

\* Identities a caller may look up: those handed out so far and the next one,
\* which no row carries.
KnownIds == 1..nextId

\* The venues posted next to the events: a bare venue and its website.
StoreVenuePayloads ==
    {VenuePayload(TheHall, 1, {}),
     VenuePayload(TheHall, 1, {"website"})}

(***************************************************************************)
(* Specifications.                                                         *)
(***************************************************************************)
Init ==
    /\ events = {}
    /\ venues = {}
    /\ clock = 0
    /\ dbclock = 0
    /\ nextId = 1
    /\ calls = 0
    /\ epc = [h \in Procs |-> "idle"]
    /\ ecall = [h \in Procs |-> EIdle]
    /\ vpc = [h \in Procs |-> "idle"]
    /\ vcall = [h \in Procs |-> VIdle]
    /\ users = {}
    /\ upc = [h \in Procs |-> "idle"]
    /\ ucall = [h \in Procs |-> UserIdle]
    /\ rd = RdIdle
    /\ chat = ChatIdle

\* Concurrent create_event requests.
NextEvents ==
    \/ \E h \in Procs, p \in EventPayloads : EStart(h, p)
    \/ \E h \in Procs : EUpsert(h)
    \/ \E h \in Procs : EUpsertFail(h)
    \/ \E h \in Procs : EFetch(h)
    \/ \E h \in Procs : EFetchFail(h)
    \/ \E h \in Procs : EFinish(h)
    \/ Tick
    \/ DbTick

SpecEvents == Init /\ [][NextEvents]_vars

\* Concurrent create_venue requests.
NextVenues ==
    \/ \E h \in Procs, p \in VenuePayloads : VStart(h, p)
    \/ \E h \in Procs : VLookupFound(h)
    \/ \E h \in Procs : VLookupMissing(h)
    \/ \E h \in Procs : VUpdate(h)
    \/ \E h \in Procs : VRefetch(h)
    \/ \E h \in Procs : VInsert(h)
    \/ \E h \in Procs : VStoreError(h)
    \/ \E h \in Procs : VFinish(h)

\* The store after one create_venue call, whose payload was the bare name,
\* has been served.
InitVenueStored ==
    /\ events = {}
    /\ venues = InsertVenue({}, 1, VenuePayload(TheHall, 1, {}), 0)
    /\ clock = 0
    /\ dbclock = 0
    /\ nextId = 2
    /\ calls = 0
    /\ epc = [h \in Procs |-> "idle"]
    /\ ecall = [h \in Procs |-> EIdle]
    /\ vpc = [h \in Procs |-> "idle"]
    /\ vcall = [h \in Procs |-> VIdle]
    /\ users = {}
    /\ upc = [h \in Procs |-> "idle"]
    /\ ucall = [h \in Procs |-> UserIdle]
    /\ rd = RdIdle
    /\ chat = ChatIdle

\* The calls meet an empty store or a store that holds a venue, so that two
\* calls can overlap on a row that is already there.
InitVenues == Init \/ InitVenueStored

SpecVenues == InitVenues /\ [][NextVenues]_vars

\* create_venue requests served one after the other.
NextVenuesSeq ==
    \/ \E h \in Procs, p \in VenuePayloads : VStartSeq(h, p)
    \/ \E h \in Procs : VLookupFound(h)
    \/ \E h \in Procs : VLookupMissing(h)
    \/ \E h \in Procs : VUpdate(h)
    \/ \E h \in Procs : VRefetch(h)
    \/ \E h \in Procs : VInsert(h)
    \/ \E h \in Procs : VStoreError(h)
    \/ \E h \in Procs : VFinish(h)

SpecVenuesSeq == Init /\ [][NextVenuesSeq]_vars

\* The read handlers and the chat pipeline, one request at a time, against
\* the empty store, over every request shape.
NextQueries ==
    \/ \E params \in SearchRequests : Quiescent /\ SearchEvents(params)
    \/ \E l \in RequestedLimits : Quiescent /\ ListEvents(l)
    \/ \E params \in ListVenuesRequests : Quiescent /\ ListVenues(params)
    \/ \E id \in KnownIds : Quiescent /\ GetEvent(id)
    \/ \E id \in KnownIds : Quiescent /\ GetVenue(id)
    \/ \E id \in KnownIds : Quiescent /\ GetUser(id)
    \/ RdFinish
    \/ Quiescent /\ ChatStart
    \/ \E reply \in FailingReplies \cup {Parsed(p) : p \in IntentParams} :
          ChatParseIntentSend(reply)
    \/ ChatParseIntentBody
    \/ ChatSearch
    \/ \E reply \in ChatReplies : ChatGenerateSend(reply)
    \/ ChatGenerateBody
    \/ ChatFinish

SpecQueries == Init /\ [][NextQueries]_vars

\* Requests served one after the other, with time passing between them,
\* against a store that create_event, create_venue and create_user fill.
NextReads ==
    \/ \E h \in Procs, p \in StoreEventPayloads : Quiescent /\ EStart(h, p)
    \/ \E h \in Procs : EUpsert(h)
    \/ \E h \in Procs : EUpsertFail(h)
    \/ \E h \in Procs : EFetch(h)
    \/ \E h \in Procs : EFetchFail(h)
    \/ \E h \in Procs : EFinish(h)
    \/ \E h \in Procs, p \in StoreVenuePayloads : Quiescent /\ VStart(h, p)
    \/ \E h \in Procs : VLookupFound(h)
    \/ \E h \in Procs : VLookupMissing(h)
    \/ \E h \in Procs : VUpdate(h)
    \/ \E h \in Procs : VRefetch(h)
    \/ \E h \in Procs : VInsert(h)
    \/ \E h \in Procs : VStoreError(h)
    \/ \E h \in Procs : VFinish(h)
    \/ \E h \in Procs, p \in UserPayloads : Quiescent /\ CreateUserEntry(h, p)
    \/ \E h \in Procs : CreateUserInsert(h)
    \/ \E h \in Procs : CreateUserInsertFail(h)
    \/ \E h \in Procs : CreateUserFinish(h)
    \/ Quiescent /\ Tick
    \/ Quiescent /\ DbTick
    \/ \E params \in StoreSearchRequests : Quiescent /\ SearchEvents(params)
    \/ \E l \in {None, Some(1)} : Quiescent /\ ListEvents(l)
    \/ \E params \in {[limit |-> None, missing_website |-> m] : m \in {None, Some(TRUE)}} :
          Quiescent /\ ListVenues(params)
    \/ \E id \in KnownIds : Quiescent /\ GetEvent(id)
    \/ \E id \in KnownIds : Quiescent /\ GetVenue(id)
    \/ \E id \in KnownIds : Quiescent /\ GetUser(id)
    \/ RdFinish
    \/ Quiescent /\ ChatStart
    \/ \E reply \in FailingReplies \cup {Parsed(p) : p \in StoreIntentParams} :
          ChatParseIntentSend(reply)
    \/ ChatParseIntentBody
    \/ ChatSearch
    \/ \E reply \in ChatReplies : ChatGenerateSend(reply)
    \/ ChatGenerateBody
    \/ ChatFinish

SpecReads == Init /\ [][NextReads]_vars

\* Concurrent create_user requests, with time passing and lookups by id in
\* between.
NextUsers ==
    \/ \E h \in Procs, p \in UserPayloads : CreateUserEntry(h, p)
    \/ \E h \in Procs : CreateUserInsert(h)
    \/ \E h \in Procs : CreateUserInsertFail(h)
    \/ \E h \in Procs : CreateUserFinish(h)
    \/ Tick
    \/ \E id \in KnownIds : GetUser(id)
    \/ RdFinish

SpecUsers == Init /\ [][NextUsers]_vars

\* The chat pipeline beside concurrent create_event requests, with time
\* passing: the store and the clock move while the pipeline awaits.
NextChat ==
    \/ \E h \in Procs, p \in StoreEventPayloads : EStart(h, p)
    \/ \E h \in Procs : EUpsert(h)
    \/ \E h \in Procs : EUpsertFail(h)
    \/ \E h \in Procs : EFetch(h)
    \/ \E h \in Procs : EFetchFail(h)
    \/ \E h \in Procs : EFinish(h)
    \/ Tick
    \/ DbTick
    \/ ChatStart
    \/ \E reply \in FailingReplies \cup {Parsed(p) : p \in StoreIntentParams} :
          ChatParseIntentSend(reply)
    \/ ChatParseIntentBody
    \/ ChatSearch
    \/ \E reply \in ChatReplies : ChatGenerateSend(reply)
    \/ ChatGenerateBody
    \/ ChatFinish

SpecChat == Init /\ [][NextChat]_vars

\* The payloads posted to the store that is written to: an event and its
\* re-scrape; a venue bare, complete, and with another source's website; and
\* patches that carry nothing, one column, or every column.
WriteEventPayloads ==
    {PayloadFull("https://x/1"), PayloadRescrape("https://x/1")}

WriteVenuePayloads ==
    {VenuePayload(TheHall, 1, {}),
     VenuePayload(TheHall, 1, VenueFillFields),
     VenuePayload(TheHall, 2, {"website"})}

VenuePatches ==
    {VenuePatch(2, {}), VenuePatch(2, {"website"}),
     VenuePatch(1, {"capacity"}), VenuePatch(2, UpdateVenueFields)}

\* The write handlers, requests served one after the other, each store
\* operation succeeding or failing.
NextWrites ==
    \/ \E h \in Procs, p \in WriteEventPayloads : Quiescent /\ EStart(h, p)
    \/ \E h \in Procs : EUpsert(h)
    \/ \E h \in Procs : EUpsertFail(h)
    \/ \E h \in Procs : EFetch(h)
    \/ \E h \in Procs : EFetchFail(h)
    \/ \E h \in Procs : EFinish(h)
    \/ \E h \in Procs, p \in WriteVenuePayloads : Quiescent /\ VStart(h, p)
    \/ \E h \in Procs : VLookupFound(h)
    \/ \E h \in Procs : VLookupMissing(h)
    \/ \E h \in Procs : VUpdate(h)
    \/ \E h \in Procs : VRefetch(h)
    \/ \E h \in Procs : VInsert(h)
    \/ \E h \in Procs : VStoreError(h)
    \/ \E h \in Procs : VFinish(h)
    \/ \E h \in Procs, id \in KnownIds, p \in VenuePatches :
          Quiescent /\ UStart(h, id, p)
    \/ \E h \in Procs : UPatch(h)
    \/ \E h \in Procs : UFetch(h)
    \/ \E h \in Procs : UFetchMissing(h)
    \/ \E h \in Procs : UStoreError(h)

SpecWrites == Init /\ [][NextWrites]_vars

\* The store as one completed create_event call leaves it: one event, held
\* at the venue "The Hall".  calls counts the requests that follow.
InitJoin ==
    /\ events = UpsertEvent({}, 1, PayloadFull("https://x/1"), 0, 0)
    /\ venues = {}
    /\ clock = 0
    /\ dbclock = 0
    /\ nextId = 2
    /\ calls = 0
    /\ epc = [h \in Procs |-> "idle"]
    /\ ecall = [h \in Procs |-> EIdle]
    /\ vpc = [h \in Procs |-> "idle"]
    /\ vcall = [h \in Procs |-> VIdle]
    /\ users = {}
    /\ upc = [h \in Procs |-> "idle"]
    /\ ucall = [h \in Procs |-> UserIdle]
    /\ rd = RdIdle
    /\ chat = ChatIdle

\* The venues posted next to that event: every spelling of its venue's name,
\* bare and with its website.
JoinVenuePayloads ==
    {VenuePayload(n, 1, present) :
        n \in VenueNames, present \in {{}, {"website"}}}

\* The event reads against a store whose venues create_venue registers, one
\* request after the other.
NextJoin ==
    \/ \E h \in Procs, p \in JoinVenuePayloads : Quiescent /\ VStart(h, p)
    \/ \E h \in Procs : VLookupFound(h)
    \/ \E h \in Procs : VLookupMissing(h)
    \/ \E h \in Procs : VUpdate(h)
    \/ \E h \in Procs : VRefetch(h)
    \/ \E h \in Procs : VInsert(h)
    \/ \E h \in Procs : VStoreError(h)
    \/ \E h \in Procs : VFinish(h)
    \/ \E l \in {None, Some(1)} : Quiescent /\ ListEvents(l)
    \/ \E params \in {NoFilters, [NoFilters EXCEPT !.venue = Some(Hall)]} :
          Quiescent /\ SearchEvents(params)
    \/ \E id \in KnownIds : Quiescent /\ GetEvent(id)
    \/ RdFinish

SpecJoin == InitJoin /\ [][NextJoin]_vars

(***************************************************************************)
(* Properties of create_event.                                             *)
(***************************************************************************)
\* Handler h executes its upsert statement in this step.
EUpsertStep(h) == epc[h] = "upsert" /\ epc'[h] = "fetch"

\* C1: under any interleaving of create_event calls the events table holds
\* at most one row per source_url.
EventSourceUrlUnique ==
    \A r1 \in events, r2 \in events :
        r1.source_url = r2.source_url => r1 = r2

\* C1 witness: two calls for one source_url are in flight together, both
\* past their upsert, and the later one hit the row of the earlier one.
EventSourceUrlUniqueWitness ==
    \E h \in Procs, g \in Procs :
        /\ h # g
        /\ epc[h] = "fetch" /\ epc[g] = "fetch"
        /\ ecall[h].payload[1].source_url = ecall[g].payload[1].source_url
        /\ IsNone(ecall[g].prior) /\ IsSome(ecall[h].prior)
        /\ Cardinality(events) = 1

\* C2: right after an upsert the table holds exactly one row with the
\* payload's source_url, and each mutable field of that row equals the
\* payload's value, absent values included.
EventUpsertOverwrites ==
    [][\A h \in Procs :
          EUpsertStep(h) =>
              LET p == ecall[h].payload[1]
                  stored == EventsBySourceUrl(events', p.source_url)
              IN /\ Cardinality(stored) = 1
                 /\ \A r \in stored :
                       \A f \in EventMutableFields : r[f] = p[f]]_vars

\* C2 witness: a second upsert for a source_url has replaced a stored
\* description by the absent description of its payload.
EventUpsertOverwritesWitness ==
    \E h \in Procs :
        /\ epc[h] = "fetch"
        /\ IsSome(ecall[h].prior)
        /\ IsSome(ecall[h].prior[1].description)
        /\ IsNone(ecall[h].payload[1].description)
        /\ \A r \in EventsBySourceUrl(events, ecall[h].payload[1].source_url) :
              IsNone(r.description)

\* C3: an upsert that hits an existing source_url keeps the row's id and
\* created_at, stores the call's fresh id nowhere and refreshes updated_at to
\* the store's NOW(), a value not earlier than the one stored before; an
\* upsert of a new source_url stores a row with the call's fresh id and
\* created_at = updated_at = the call's now.
EventUpsertIdentity ==
    [][\A h \in Procs :
          EUpsertStep(h) =>
              LET p == ecall[h].payload[1]
                  before == EventsBySourceUrl(events, p.source_url)
                  after == EventsBySourceUrl(events', p.source_url)
              IN IF before # {}
                 THEN /\ \A r \in before :
                            \E r2 \in after :
                                /\ r2.id = r.id
                                /\ r2.created_at = r.created_at
                                /\ r2.updated_at >= r.updated_at
                                /\ r2.updated_at = dbclock
                      /\ \A r2 \in events' : r2.id # ecall[h].id
                 ELSE \E r2 \in after :
                         /\ r2.id = ecall[h].id
                         /\ r2.created_at = ecall[h].now
                         /\ r2.updated_at = ecall[h].now]_vars

(***************************************************************************)
(* Properties of create_venue.                                             *)
(***************************************************************************)
\* The natural key of a venue: its name, lower-cased and trimmed.
VenueNaturalKey(name) == Lower(Trim(name))

\* C4: after create_venue calls run one after the other there is at most
\* one venue row per case-insensitive, trimmed name.
VenueNaturalKeyUnique ==
    \A v1 \in venues, v2 \in venues :
        VenueNaturalKey(v1.name) = VenueNaturalKey(v2.name) => v1 = v2

\* C5: concurrent create_venue calls whose names are equal up to letter
\* case (the key of the handler's own lookup) leave one venue row.
VenueConcurrentCreateOneRow ==
    \A v1 \in venues, v2 \in venues :
        Lower(v1.name) = Lower(v2.name) => v1 = v2

\* C6: when a create_venue call on an existing venue has ended, a website
\* that was stored before the call is unchanged, and a website the payload
\* carried for a venue that had none is the stored one.
VenueWebsiteFillOnly ==
    \A h \in Procs :
        (vpc[h] = "done" /\ IsSome(vcall[h].existing)) =>
            LET e == vcall[h].existing[1]
                p == vcall[h].payload[1]
                stored == VenuesById(venues, e.id)
            IN /\ stored # {}
               /\ \A v \in stored :
                     /\ IsSome(e.website) => v.website = e.website
                     /\ (vcall[h].status = StatusOk
                         /\ IsNone(e.website) /\ IsSome(p.website))
                            => v.website = p.website

\* C6 witness: a call whose payload carried another website than the stored
\* one has run its UPDATE (the answer differs from the row it found).
VenueWebsiteFillOnlyWitness ==
    \E h \in Procs :
        /\ vpc[h] = "done" /\ vcall[h].status = StatusOk
        /\ IsSome(vcall[h].existing)
        /\ IsSome(vcall[h].existing[1].website)
        /\ IsSome(vcall[h].payload[1].website)
        /\ vcall[h].payload[1].website # vcall[h].existing[1].website
        /\ vcall[h].body # vcall[h].existing

\* C7: under any interleaving of create_venue calls no step changes or
\* clears a fill field of a venue row that is not null.
VenueFieldsNeverOverwritten ==
    [][\A v \in venues :
          \E w \in venues' :
              /\ w.id = v.id
              /\ \A f \in VenueFillFields : IsSome(v[f]) => w[f] = v[f]]_vars

\* C7 witness: a stale lookup.  A call found the row with no website and
\* carries one; before its UPDATE ran another call filled the website with
\* another value; its UPDATE has run and the stored website is the other
\* call's.
VenueFieldsNeverOverwrittenWitness ==
    \E h \in Procs :
        /\ vpc[h] = "refetch"
        /\ IsNone(vcall[h].existing[1].website)
        /\ IsSome(vcall[h].payload[1].website)
        /\ \E v \in VenuesById(venues, vcall[h].existing[1].id) :
              IsSome(v.website) /\ v.website # vcall[h].payload[1].website

\* C8: when a create_venue call on an existing venue has answered 200, every
\* fill field that was null and that the payload carried is stored.
VenueFillsEveryNullField ==
    \A h \in Procs :
        (vpc[h] = "done" /\ vcall[h].status = StatusOk
         /\ IsSome(vcall[h].existing)) =>
            LET e == vcall[h].existing[1]
                p == vcall[h].payload[1]
            IN \A v \in VenuesById(venues, e.id) :
                  \A f \in VenueFillFields :
                      (IsNone(e[f]) /\ IsSome(p[f])) => v[f] = p[f]

\* No field of stored row e would change under payload p.
NoFieldWouldChange(e, p) ==
    \A f \in VenueFillFields : IsNone(p[f]) \/ IsSome(e[f])

\* C9: a create_venue call that finds a venue none of whose fields would
\* change ends with its lookup: it leaves the store as it is and answers 200
\* with the stored row.
VenueNoOpLaw ==
    [][\A h \in Procs :
          (/\ vpc[h] = "lookup"
           /\ IsSome(vcall'[h].existing)
           /\ NoFieldWouldChange(vcall'[h].existing[1], vcall[h].payload[1]))
          => /\ vpc'[h] = "done"
             /\ venues' = venues
             /\ vcall'[h].status = StatusOk
             /\ vcall'[h].body = vcall'[h].existing
             /\ vcall'[h].existing[1] \in venues']_vars

\* C9 witness: a call whose payload carried a website for a venue that
\* already had one has ended without a change.
VenueNoOpLawWitness ==
    \E h \in Procs :
        /\ vpc[h] = "done" /\ vcall[h].status = StatusOk
        /\ IsSome(vcall[h].existing)
        /\ IsSome(vcall[h].payload[1].website)
        /\ NoFieldWouldChange(vcall[h].existing[1], vcall[h].payload[1])
        /\ vcall[h].body = vcall[h].existing

\* C10: a successful create_event or create_venue call answers 201 exactly
\* when it inserted a row and 200 exactly when it met an existing row.
UpsertStatusTellsInsert ==
    /\ \A h \in Procs :
          (epc[h] = "done" /\ ecall[h].status # StatusInternalServerError) =>
              /\ IsNone(ecall[h].prior) <=> ecall[h].status = StatusCreated
              /\ IsSome(ecall[h].prior) <=> ecall[h].status = StatusOk
    /\ \A h \in Procs :
          (vpc[h] = "done" /\ vcall[h].status # StatusInternalServerError) =>
              /\ IsNone(vcall[h].existing) <=> vcall[h].status = StatusCreated
              /\ IsSome(vcall[h].existing) <=> vcall[h].status = StatusOk

(***************************************************************************)
(* Claims about the read side.                                             *)
(***************************************************************************)
\* The limit the answered request asked for.
RequestedLimit == rd.params[1].limit

\* C11: for every requested limit the LIMIT bound into the query lies in
\* [1, 100] for search_events and in [1, 1000] for list_events and
\* list_venues, and it is 50, 100 and 500 when no limit is given.
LimitWithinRange ==
    /\ rd.handler = "search_events" =>
          /\ LimitValue(rd.query[1]) \in 1..SearchMaxLimit
          /\ IsNone(RequestedLimit) => LimitValue(rd.query[1]) = SearchDefaultLimit
    /\ rd.handler = "list_events" =>
          /\ LimitValue(rd.query[1]) \in 1..ListEventsMaxLimit
          /\ IsNone(RequestedLimit) =>
                LimitValue(rd.query[1]) = ListEventsDefaultLimit
    /\ rd.handler = "list_venues" =>
          /\ LimitValue(rd.query[1]) \in 1..ListVenuesMaxLimit
          /\ IsNone(RequestedLimit) =>
                LimitValue(rd.query[1]) = ListVenuesDefaultLimit

\* C12: the offset bound into the search query is never negative: a request
\* with a negative offset sends no query to the store.
OffsetNeverNegative ==
    (rd.handler = "search_events" /\ IsSome(rd.query)) =>
        /\ OffsetValue(rd.query[1]) >= 0
        /\ IsNone(rd.params[1].offset) => OffsetValue(rd.query[1]) = 0

\* The statement an unfiltered search_events compiles to.
UnfilteredSearchText ==
    EventSelectJoin \o " WHERE e.start_time >= NOW()"
    \o " ORDER BY e.start_time ASC LIMIT $1 OFFSET $2"

\* The statement an unfiltered search_events_with_params compiles to.
UnfilteredIntentText ==
    EventSelectPlain \o " WHERE start_time >= NOW()"
    \o " ORDER BY start_time ASC LIMIT 20"

\* C13: with every filter absent, search_events compiles to the single
\* predicate start_time >= NOW(), ordered by start_time ascending, with
\* LIMIT 50 and OFFSET 0 bound, and search_events_with_params to the same
\* predicate and order with its fixed LIMIT 20: bounded and constrained in
\* time.
UnfilteredSearchIsDefaultQuery ==
    /\ (rd.handler = "search_events" /\ rd.params = Some(NoFilters)) =>
          /\ rd.query[1].text = UnfilteredSearchText
          /\ rd.query[1].conditions = <<Fragment("upcoming", << >>)>>
          /\ rd.query[1].binds = <<Int4(SearchDefaultLimit), Int4(0)>>
          /\ LimitValue(rd.query[1]) = SearchDefaultLimit
          /\ OffsetValue(rd.query[1]) = 0
    /\ (IsSome(chat.query) /\ chat.params = Some(NoSearchParams)) =>
          /\ chat.query[1].text = UnfilteredIntentText
          /\ chat.query[1].conditions = <<Fragment("upcoming", << >>)>>
          /\ chat.query[1].binds = << >>
          /\ LimitValue(chat.query[1]) = IntentSearchLimit

\* C13 witness: an unfiltered search has been compiled, run and answered.
UnfilteredSearchIsDefaultQueryWitness ==
    /\ rd.handler = "search_events"
    /\ rd.params = Some(NoFilters)
    /\ rd.status = StatusOk
    /\ rd.query[1].text = UnfilteredSearchText

\* The ids of the events in the answered page.
ReturnedIds == {rd.body[1][i].id : i \in 1..Len(rd.body[1])}

\* Whether the compiled statement carries the test.
HasTest(q, test) == \E i \in 1..Len(q.conditions) : q.conditions[i].test = test

\* C14: the default constraint start_time >= NOW() is applied exactly when
\* no start-date lower bound is given, in search_events and in
\* search_events_with_params alike; a search that gives only start_after
\* returns every stored event starting at or after the given date, those
\* that started before now included.
TimeLowerBoundIsGivenDate ==
    /\ (rd.handler = "search_events" /\ IsSome(rd.query)) =>
          (HasTest(rd.query[1], "upcoming") <=> IsNone(rd.params[1].start_after))
    /\ IsSome(chat.query) =>
          (HasTest(chat.query[1], "upcoming") <=> IsNone(chat.params[1].date_from))
    /\ (rd.handler = "search_events" /\ rd.status = StatusOk) =>
          LET p == rd.params[1]
          IN /\ IsNone(p.start_after) =>
                   \A i \in 1..Len(rd.body[1]) : rd.body[1][i].start_time >= dbclock
             /\ (IsSome(p.start_after)
                 /\ p = [NoFilters EXCEPT !.start_after = p.start_after]) =>
                   \A e \in events :
                      e.start_time >= p.start_after[1] => e.id \in ReturnedIds

\* The fields a request gives.
PresentFields(p, fields) == {f \in fields : IsSome(p[f])}

\* Requests with the same present fields and the same boolean filters as p,
\* with other values in every present field.
SameShapeSearches(p) ==
    {FiltersOf(PresentFields(p, SearchFields), pick, p.outdoor, p.family_friendly) :
        pick \in {1, 2}}

SameShapeIntents(p) ==
    {IntentParamsOf(PresentFields(p, IntentFields), pick, p.outdoor,
                    p.family_friendly) : pick \in {1, 2}}

\* The value is among those bound to the statement.
Bound(q, value) ==
    \E i \in 1..Len(q.binds) :
        q.binds[i].ty = value.ty /\ q.binds[i].v = value.v

\* C15: the text of the compiled query depends only on which filters are
\* present and on the boolean filters' values: requests of the same shape
\* with other values compile to the same text, and every value a request
\* gives is among the values bound to the statement.
QueryTextIndependentOfValues ==
    /\ (rd.handler = "search_events" /\ IsSome(rd.query)) =>
          LET p == rd.params[1]
              q == rd.query[1]
          IN /\ \A p2 \in SameShapeSearches(p) : SearchQuery(p2).text = q.text
             /\ IsSome(p.q) => Bound(q, Text(Pattern(p.q[1])))
             /\ IsSome(p.category) => Bound(q, Text(p.category[1]))
             /\ IsSome(p.venue) => Bound(q, Text(Pattern(p.venue[1])))
             /\ IsSome(p.location) => Bound(q, Text(Pattern(p.location[1])))
             /\ IsSome(p.start_after) => Bound(q, Timestamp(p.start_after[1]))
             /\ IsSome(p.start_before) => Bound(q, Timestamp(p.start_before[1]))
             /\ IsSome(p.max_price) => Bound(q, Float(p.max_price[1]))
             /\ q.limit.kind = "param" /\ q.offset.kind = "param"
             /\ LimitValue(q) = Min(UnwrapOr(p.limit, SearchDefaultLimit),
                                    SearchMaxLimit)
             /\ OffsetValue(q) = UnwrapOr(p.offset, 0)
    /\ IsSome(chat.query) =>
          LET p == chat.params[1]
              q == chat.query[1]
          IN /\ \A p2 \in SameShapeIntents(p) : IntentQuery(p2).text = q.text
             /\ IsSome(p.query) => Bound(q, Text(Pattern(p.query[1])))
             /\ IsSome(p.category) => Bound(q, Text(p.category[1]))
             /\ IsSome(p.date_from) => Bound(q, Text(p.date_from[1]))
             /\ IsSome(p.date_to) => Bound(q, Text(p.date_to[1]))
             /\ IsSome(p.location) => Bound(q, Text(Pattern(p.location[1])))
             /\ IsSome(p.price_max) => Bound(q, Float(p.price_max[1]))

\* C15 witness: a search that gave a free-text term, a category and a price
\* has been compiled, and a search of the same shape gives other values.
QueryTextIndependentOfValuesWitness ==
    /\ rd.handler = "search_events"
    /\ IsSome(rd.query)
    /\ IsSome(rd.params[1].q) /\ IsSome(rd.params[1].category)
    /\ IsSome(rd.params[1].max_price)
    /\ \E p2 \in SameShapeSearches(rd.params[1]) :
          /\ p2.q # rd.params[1].q
          /\ SearchQuery(p2).binds # rd.query[1].binds
          /\ SearchQuery(p2).text = rd.query[1].text

\* The stored events that have not started at store time.
Upcoming == {e \in events : e.start_time >= dbclock}

\* C16: a boolean filter adds its predicate only when it is given as true,
\* and then only rows whose flag is true are returned (every upcoming one of
\* them when it is the only filter); omitted or given as false it adds no
\* predicate, and upcoming rows with the flag true, false and unset are all
\* returned.
BooleanFiltersInclusive ==
    /\ (rd.handler = "search_events" /\ IsSome(rd.query)) =>
          /\ HasTest(rd.query[1], "outdoor") <=> rd.params[1].outdoor = Some(TRUE)
          /\ HasTest(rd.query[1], "family_friendly") <=>
                rd.params[1].family_friendly = Some(TRUE)
    /\ IsSome(chat.query) =>
          /\ HasTest(chat.query[1], "outdoor") <=>
                chat.params[1].outdoor = Some(TRUE)
          /\ HasTest(chat.query[1], "family_friendly") <=>
                chat.params[1].family_friendly = Some(TRUE)
    /\ (rd.handler = "search_events" /\ rd.status = StatusOk) =>
          LET p == rd.params[1]
              rows == rd.body[1]
          IN /\ p.outdoor = Some(TRUE) =>
                   \A i \in 1..Len(rows) : rows[i].outdoor = Some(TRUE)
             /\ p.family_friendly = Some(TRUE) =>
                   \A i \in 1..Len(rows) : rows[i].family_friendly = Some(TRUE)
             /\ p = [NoFilters EXCEPT !.outdoor = Some(TRUE)] =>
                   ReturnedIds = {e.id : e \in {u \in Upcoming : u.outdoor = Some(TRUE)}}
             /\ p = [NoFilters EXCEPT !.family_friendly = Some(TRUE)] =>
                   ReturnedIds =
                      {e.id : e \in {u \in Upcoming : u.family_friendly = Some(TRUE)}}
             /\ p \in {NoFilters,
                       [NoFilters EXCEPT !.outdoor = Some(FALSE)],
                       [NoFilters EXCEPT !.family_friendly = Some(FALSE)]} =>
                   ReturnedIds = {e.id : e \in Upcoming}

\* C16 witness: a search with outdoor given as false has returned a row whose
\* flag is true next to one whose flag is not.
BooleanFiltersInclusiveWitness ==
    /\ rd.handler = "search_events"
    /\ rd.status = StatusOk
    /\ rd.params[1] = [NoFilters EXCEPT !.outdoor = Some(FALSE)]
    /\ \E i, j \in 1..Len(rd.body[1]) :
          /\ rd.body[1][i].outdoor = Some(TRUE)
          /\ rd.body[1][j].outdoor # Some(TRUE)

\* The upsert statement of handler h executes on a source_url that has a row.
EUpsertOverStep(h) ==
    /\ EUpsertStep(h)
    /\ EventsBySourceUrl(events, ecall[h].payload[1].source_url) # {}

\* A search that gives max_price alone returns exactly the upcoming events
\* whose stored price_min is null or at most the given price.
PriceFilterOnStoredPrice ==
    (rd.handler = "search_events" /\ rd.status = StatusOk
     /\ IsSome(rd.params[1].max_price)
     /\ rd.params[1] = [NoFilters EXCEPT !.max_price = rd.params[1].max_price]) =>
        ReturnedIds =
           {e.id : e \in {u \in Upcoming :
                            IsNone(u.price_min)
                            \/ u.price_min[1] <= rd.params[1].max_price[1]}}

\* C17: a search with max_price = M returns an upcoming event iff its stored
\* price_min is null or at most M, and the stored price_min is the one the
\* latest upsert for the source_url wrote: an upsert over an existing row
\* leaves the payload's price_min in it.
PriceFilterFollowsUpsert ==
    /\ []PriceFilterOnStoredPrice
    /\ [][\A h \in Procs :
            EUpsertOverStep(h) =>
               \A r \in EventsBySourceUrl(events', ecall[h].payload[1].source_url) :
                  r.price_min = ecall[h].payload[1].price_min]_vars

\* C17 witness: the one stored event was written again under its source_url
\* after it was created (updated_at is later than created_at) and holds the
\* price 20 of the re-scrape, and a search with max_price 15 has left it out.
PriceFilterFollowsUpsertWitness ==
    /\ rd.handler = "search_events"
    /\ rd.status = StatusOk
    /\ rd.params[1] = [NoFilters EXCEPT !.max_price = Some(15)]
    /\ rd.body = Some(<< >>)
    /\ \E e \in Upcoming :
          /\ events = {e}
          /\ e.id = 1
          /\ e.price_min = Some(20)
          /\ e.updated_at > e.created_at

\* The text filters of search_events and of search_events_with_params.
SearchTextFields == {"q", "venue", "location"}
IntentTextFields == {"query", "location"}

\* The value is empty once surrounding whitespace is removed.
IsBlank(text) == Trim(text) = << >>

\* The pages the store may answer the statement with, as the handler
\* serialises them.
PossibleBodies(q) ==
    {JoinedEvents(res.rows) : res \in {r \in ExecQuery(q, events, venues, dbclock) : r.ok}}

\* C18: a text filter (q, venue, location) whose value is empty, or empty
\* after trimming, is treated as absent: the statement, its bound values and
\* the rows returned are those of the request without the field; a value
\* that is not empty is trimmed before it is wrapped as %term%.
BlankTextIsAbsent ==
    /\ (rd.handler = "search_events" /\ IsSome(rd.query)) =>
          \A f \in SearchTextFields :
             LET p == rd.params[1]
                 without == SearchQuery([p EXCEPT ![f] = None])
             IN /\ (IsSome(p[f]) /\ IsBlank(p[f][1])) =>
                      /\ rd.query[1].text = without.text
                      /\ rd.query[1].binds = without.binds
                      /\ rd.status = StatusOk => rd.body[1] \in PossibleBodies(without)
                /\ (IsSome(p[f]) /\ ~IsBlank(p[f][1])) =>
                      Bound(rd.query[1], Text(Pattern(Trim(p[f][1]))))
    /\ IsSome(chat.query) =>
          \A f \in IntentTextFields :
             LET p == chat.params[1]
                 without == IntentQuery([p EXCEPT ![f] = None])
             IN /\ (IsSome(p[f]) /\ IsBlank(p[f][1])) =>
                      /\ chat.query[1].text = without.text
                      /\ chat.query[1].binds = without.binds
                /\ (IsSome(p[f]) /\ ~IsBlank(p[f][1])) =>
                      Bound(chat.query[1], Text(Pattern(Trim(p[f][1]))))

\* C19: when the intent service is unreachable, answers with a non-success
\* status or returns a body that does not parse, parse_intent returns an
\* error and no SearchParams, and process_chat_message ends with that error
\* before it searches the store or calls generate_response; nothing is
\* searched or generated while the body of the service's answer is awaited.
IntentFailureEndsChat ==
    /\ \A reply \in FailingReplies :
          /\ ~ParseIntent(reply).ok
          /\ ParseIntent(reply).value = None
    /\ chat.pc = "parse_intent_body" =>
          /\ IsNone(chat.query)
          /\ ~chat.searched
          /\ ~chat.generated
    /\ (IsSome(chat.reply) /\ chat.reply[1] \in FailingReplies) =>
          /\ chat.pc = "done"
          /\ chat.result = "err"
          /\ chat.error \in {"HttpError", "ServiceError"}
          /\ IsNone(chat.params)
          /\ IsNone(chat.query)
          /\ ~chat.searched
          /\ ~chat.generated

\* C19 witness: the intent service answered 200 with a body that does not
\* parse and the call has ended with the error.
IntentFailureEndsChatWitness ==
    /\ chat.pc = "done"
    /\ chat.reply = Some(Malformed)
    /\ chat.result = "err"
    /\ ~chat.searched

\* No stored row matches the collection query that was answered.
NothingMatches ==
    CASE rd.handler = "list_events" -> Upcoming = {}
      [] rd.handler = "search_events" ->
            \A e \in events : ~Satisfies(rd.query[1], e, dbclock)
      [] rd.handler = "list_venues" ->
            VenuesListed(venues, rd.params[1].missing_website) = {}
      [] OTHER -> FALSE

\* The rows carrying the identity that was looked up.
RowsLookedUp ==
    CASE rd.handler = "get_event" -> {e \in events : e.id = rd.params[1]}
      [] rd.handler = "get_venue" -> {v \in venues : v.id = rd.params[1]}
      [] rd.handler = "get_user" -> {u \in users : u.id = rd.params[1]}
      [] OTHER -> {}

\* C20: a lookup by identity (get_event, get_venue, get_user) that the store
\* ran and that matched no row answers 404 with no body, and one that
\* matched a row answers 200; a collection query (list_events,
\* search_events, list_venues) that the store ran and that matched no row
\* answers 200 with an empty array.
MissingIsNotFoundEmptyIsOk ==
    /\ (rd.handler \in {"get_event", "get_venue", "get_user"} /\ rd.fetched) =>
          /\ RowsLookedUp = {} => (rd.status = StatusNotFound /\ IsNone(rd.body))
          /\ RowsLookedUp # {} => (rd.status = StatusOk /\ IsSome(rd.body))
    /\ (rd.handler \in {"list_events", "search_events", "list_venues"}
        /\ rd.fetched /\ NothingMatches) =>
          (rd.status = StatusOk /\ rd.body = Some(<< >>))
    /\ (rd.handler # "idle" /\ ~rd.fetched) =>
          rd.status = StatusInternalServerError

\* C20 witness: with an event stored, a lookup of an identity no event
\* carries has answered 404.
MissingIsNotFoundEmptyIsOkWitness ==
    /\ rd.handler = "get_event"
    /\ rd.fetched
    /\ events # {}
    /\ RowsLookedUp = {}
    /\ rd.status = StatusNotFound

(***************************************************************************)
(* Properties of update_venue and of the write handlers' answers.          *)
(***************************************************************************)
\* C21: update_venue only fills NULL columns.  Once its UPDATE has run, for
\* every column of the payload, a value that was stored before the call is
\* still stored, and a column the payload leaves null holds what it held.
\* (Requests are served one after the other, so the row under the path id
\* differs from the row the UPDATE found only by what that UPDATE did.)
UpdateVenueFillsOnlyNull ==
    \A h \in Procs :
       (vpc[h] = "patch_fetch" /\ IsSome(vcall[h].existing)) =>
          \A v \in VenuesById(venues, vcall[h].id) :
             \A f \in UpdateVenueFields :
                /\ IsSome(vcall[h].existing[1][f]) =>
                      v[f] = vcall[h].existing[1][f]
                /\ IsNone(vcall[h].payload[1][f]) =>
                      v[f] = vcall[h].existing[1][f]

(***************************************************************************)
(* Properties of the placeholders and the bound values of a compiled       *)
(* query.  The placeholders are read back from the statement text.         *)
(***************************************************************************)
\* The decimal digit a character stands for; -1 for any other character.
Digit(c) ==
    CASE c = "0" -> 0 [] c = "1" -> 1 [] c = "2" -> 2 [] c = "3" -> 3
      [] c = "4" -> 4 [] c = "5" -> 5 [] c = "6" -> 6 [] c = "7" -> 7
      [] c = "8" -> 8 [] c = "9" -> 9 [] OTHER -> -1

\* The number written in text from position i on, after the digits read so
\* far have given acc.
RECURSIVE NumberAt(_, _, _)
NumberAt(text, i, acc) ==
    IF i <= Len(text) /\ Digit(SubSeq(text, i, i)) >= 0
    THEN NumberAt(text, i + 1, 10 * acc + Digit(SubSeq(text, i, i)))
    ELSE acc

\* The positions of the "$" signs of a statement text.
DollarPositions(text) == {i \in 1..Len(text) : SubSeq(text, i, i) = "$"}

\* The distinct positional placeholders a statement text mentions.
TextPlaceholders(text) ==
    {NumberAt(text, i + 1, 0) : i \in DollarPositions(text)}

\* The queries compiled in the current state: the one the read handler
\* sent and the one the chat pipeline sent.
CompiledQueries ==
    (IF IsSome(rd.query) THEN {rd.query[1]} ELSE {})
    \cup (IF IsSome(chat.query) THEN {chat.query[1]} ELSE {})

\* C22: in every compiled query the placeholders of the statement text are
\* exactly $1..$n, where n is the number of values bound: as many values as
\* distinct placeholders, no gap and no unused index.
BindsMatchPlaceholders ==
    \A q \in CompiledQueries : TextPlaceholders(q.text) = 1..Len(q.binds)

\* A search giving every filter has been compiled (ten values, $1..$10), and
\* the statement text mentions "$" ten times ($1 and $2 for the free text,
\* one each for the other six filters, LIMIT and OFFSET).
BindsMatchPlaceholdersWitness ==
    /\ rd.handler = "search_events"
    /\ \A f \in SearchFields : IsSome(rd.params[1][f])
    /\ rd.params[1].outdoor = Some(TRUE)
    /\ Len(rd.query[1].binds) = 10
    /\ TextPlaceholders(rd.query[1].text) = 1..10
    /\ Cardinality(DollarPositions(rd.query[1].text)) = 10

\* The placeholders of a statement text in the order the text mentions them.
PlaceholdersInOrder(text) ==
    LET pos == DollarPositions(text)
    IN [k \in 1..Cardinality(pos) |->
           LET i == CHOOSE i \in pos : Cardinality({j \in pos : j < i}) = k - 1
           IN NumberAt(text, i + 1, 0)]

\* The value a filter supplies for the placeholders of its fragment:
\* search_events takes it from the SearchQuery of the request,
\* search_events_with_params from the SearchParams of the intent.
SearchFilterValue(params, test) ==
    CASE test = "text" -> Text(Pattern(params.q[1]))
      [] test = "category" -> Text(params.category[1])
      [] test = "venue" -> Text(Pattern(params.venue[1]))
      [] test = "location" -> Text(Pattern(params.location[1]))
      [] test = "start_ge" -> Timestamp(params.start_after[1])
      [] test = "start_le" -> Timestamp(params.start_before[1])
      [] test = "price" -> Float(params.max_price[1])

IntentFilterValue(params, test) ==
    CASE test = "text" -> Text(Pattern(params.query[1]))
      [] test = "category" -> Text(params.category[1])
      [] test = "start_ge" -> Text(params.date_from[1])
      [] test = "start_le" -> Text(params.date_to[1])
      [] test = "location" -> Text(Pattern(params.location[1]))
      [] test = "price" -> Float(params.price_max[1])

\* The tests of the fragments that carry a placeholder, in the order the
\* fragments were appended, one entry per placeholder.
RECURSIVE SlotTests(_)
SlotTests(conditions) ==
    IF conditions = << >> THEN << >>
    ELSE [k \in 1..Len(Head(conditions).slots) |-> Head(conditions).test]
         \o SlotTests(Tail(conditions))

\* The k-th value bound to query q is the value v (type first: values of
\* different types are different).
BoundAt(q, k, v) ==
    /\ k <= Len(q.binds)
    /\ q.binds[k].ty = v.ty
    /\ q.binds[k].v = v.v

\* Binds of query q follow its fragments: every fragment's text carries the
\* placeholders of that fragment, the statement text mentions the
\* placeholders of the fragments in ascending order, and the value bound
\* k-th is the value of the filter whose fragment carries $k.
BindsFollowFragments(q, value(_)) ==
    LET tests == SlotTests(q.conditions)
        mentioned == PlaceholdersInOrder(q.text)
    IN /\ \A i \in 1..Len(q.conditions) :
             PlaceholdersInOrder(FragmentText(q.conditions[i], ""))
                = q.conditions[i].slots
       /\ Len(mentioned) >= Len(tests)
       /\ \A k \in 1..Len(tests) : mentioned[k] = k
       /\ \A k \in 1..Len(tests) : BoundAt(q, k, value(tests[k]))

\* C23: in search_events and in search_events_with_params, for every
\* combination of present and absent filters, the k-th bound value is the
\* value of the filter whose fragment carries placeholder $k; the fragments
\* come in the order free text (twice), category, venue, location,
\* start_after, start_before, max_price (query twice, category, date_from,
\* date_to, location, price_max for the intent), and the boolean fragments
\* carry no placeholder.
BindOrderIsFragmentOrder ==
    /\ rd.handler = "search_events" =>
          LET SearchValue(test) == SearchFilterValue(rd.params[1], test)
          IN BindsFollowFragments(rd.query[1], SearchValue)
    /\ IsSome(chat.query) =>
          LET IntentValue(test) == IntentFilterValue(chat.params[1], test)
          IN BindsFollowFragments(chat.query[1], IntentValue)
    /\ \A q \in CompiledQueries :
          \A i \in 1..Len(q.conditions) :
             q.conditions[i].test \in {"upcoming", "outdoor", "family_friendly"}
                => q.conditions[i].slots = << >>

\* A search giving category and venue with both boolean filters set has
\* been compiled: the category is bound first and the venue pattern second,
\* and the boolean fragments are in the statement and bind nothing.
BindOrderIsFragmentOrderWitness ==
    /\ rd.handler = "search_events"
    /\ IsSome(rd.params[1].category) /\ IsSome(rd.params[1].venue)
    /\ IsNone(rd.params[1].q)
    /\ rd.params[1].outdoor = Some(TRUE)
    /\ rd.params[1].family_friendly = Some(TRUE)
    /\ IsSome(rd.params[1].max_price)
    /\ BoundAt(rd.query[1], 1, Text(rd.params[1].category[1]))
    /\ BoundAt(rd.query[1], 2, Text(Pattern(rd.params[1].venue[1])))
    /\ HasTest(rd.query[1], "outdoor")

\* The statement text ends with the given clause.
EndsWith(text, clause) ==
    /\ Len(text) >= Len(clause)
    /\ SubSeq(text, Len(text) - Len(clause) + 1, Len(text)) = clause

\* LIMIT and OFFSET of query q are its last two bound parameters, in that
\* order: the text ends with LIMIT $n-1 OFFSET $n for the n values bound,
\* and the last two values are the int4 limit and offset.
PaginationIsBoundLast(q) ==
    LET n == Len(q.binds)
    IN /\ n >= 2
       /\ EndsWith(q.text, " LIMIT " \o Placeholder(n - 1)
                           \o " OFFSET " \o Placeholder(n))
       /\ q.limit = Param(n - 1)
       /\ q.offset = Param(n)
       /\ q.binds[n - 1].ty = "int4"
       /\ q.binds[n].ty = "int4"
       /\ \A i \in 1..Len(q.conditions) :
             \A k \in 1..Len(q.conditions[i].slots) :
                q.conditions[i].slots[k] < n - 1

\* C24: in every compiled search query, of search_events and of
\* search_events_with_params, LIMIT and OFFSET are the last two bound
\* parameters, in that order ($n-1 and $n of n bound values), bound after
\* every filter value.
PaginationBoundLastInEverySearch ==
    /\ rd.handler = "search_events" => PaginationIsBoundLast(rd.query[1])
    /\ IsSome(chat.query) => PaginationIsBoundLast(chat.query[1])

(***************************************************************************)
(* The two search paths compared.                                          *)
(***************************************************************************)
\* The search_events request that carries the filter values of SearchParams
\* p, with no venue filter and the default page.
IntentAsSearch(p) ==
    [NoFilters EXCEPT !.q = p.query, !.category = p.category,
                      !.location = p.location, !.start_after = p.date_from,
                      !.start_before = p.date_to, !.max_price = p.price_max,
                      !.outdoor = p.outdoor,
                      !.family_friendly = p.family_friendly]

\* The predicates a query's WHERE clause conjoins.
Tests(q) == {q.conditions[i].test : i \in 1..Len(q.conditions)}

\* The identities of the events of an answer, in order.
IdsOf(rows) == [i \in 1..Len(rows) |-> rows[i].id]

\* The chat pipeline's search ended as search_events may end for query qs on
\* the same store: with the same events in the same order, or with a store
\* error.
SameOutcome(qs) ==
    \E res \in ExecQuery(qs, events, venues, dbclock) \cup {StoreError} :
       IF res.ok
       THEN /\ IsSome(chat.events)
            /\ IdsOf(chat.events[1]) = IdsOf(JoinedEvents(res.rows))
       ELSE IsNone(chat.events) /\ chat.error = "Database"

\* C25: search_events and search_events_with_params compile the same filter
\* values to equivalent queries: the same conjunction of predicates, the
\* same ordering and the same default limit, so that both return the same
\* events from the same store.  (The outcomes are compared for filters
\* without dates: a date is a timestamp in one request and a text in the
\* other.)
SearchPathsEquivalent ==
    (chat.searched /\ IsSome(chat.query)) =>
       LET p == chat.params[1]
           qi == chat.query[1]
           qs == SearchQuery(IntentAsSearch(p))
       IN /\ (IsNone(p.date_from) /\ IsNone(p.date_to)) => SameOutcome(qs)
          /\ Tests(qi) = Tests(qs)
          /\ qi.order = qs.order
          /\ LimitValue(qi) = LimitValue(qs)

(***************************************************************************)
(* Properties of concurrent writes and of the joined reads.                *)
(***************************************************************************)
\* C26: the event row a create_event call answers with carries the mutable
\* field values of that call's own payload, also when another create_event
\* for the same source_url runs concurrently.
CreateEventReturnsOwnPayload ==
    \A h \in Procs :
       (epc[h] = "done" /\ ecall[h].status = StatusOk) =>
          \A f \in EventMutableFields :
             ecall[h].body[1][f] = ecall[h].payload[1][f]

\* C27: every stored event appears at most once in the answer of
\* list_events and of search_events, and the answer never has more rows
\* than there are events, whatever venues create_venue has registered.
\* (get_event answers with one row or none: fetch_optional.)
EventAppearsOnce ==
    (rd.handler \in {"list_events", "search_events"} /\ rd.fetched) =>
       /\ \A i, j \in 1..Len(rd.body[1]) :
             i # j => rd.body[1][i].id # rd.body[1][j].id
       /\ Len(rd.body[1]) <= Cardinality(events)

\* C28: a write handler that answers with an error status has left the
\* store as it found it.  For create_event: no row carries the id the call
\* proposed, and the row its upsert found is still stored as it was.  For
\* create_venue and update_venue: the row the call found is still stored as
\* it was.  (Requests are served one after the other, so no other call has
\* written in between.)
ErrorLeavesStoreUnchanged ==
    \A h \in Procs :
       /\ (epc[h] = "done" /\ ecall[h].status = StatusInternalServerError) =>
             /\ ~\E r \in events : r.id = ecall[h].id
             /\ IsSome(ecall[h].prior) => ecall[h].prior[1] \in events
       /\ (vpc[h] = "done" /\ vcall[h].status = StatusInternalServerError) =>
             (IsSome(vcall[h].existing) => vcall[h].existing[1] \in venues)

\* C29: the latitude and the longitude stored for a venue come from the same
\* payload (each source posts its own pair of coordinates).
CoordinatesFromOnePayload ==
    \A v \in venues :
       (IsSome(v.latitude) /\ IsSome(v.longitude)) =>
          \E src \in VenueSources :
             /\ v.latitude = Some(SourceValue("latitude", src))
             /\ v.longitude = Some(SourceValue("longitude", src))

====
